---- MODULE Spec2Model ----
(***************************************************************************)
(* A model of the VistulaOS installer engine: CommandExecutor.run          *)
(* (core/executor.py) and InstallerEngine.validate_ready / run_install     *)
(* (core/installer.py).  One run of run_install is a sequence of steps;    *)
(* every step appends to `log` the progress event it reports, the commands *)
(* it hands to the executor and the file operations it performs itself.    *)
(***************************************************************************)
EXTENDS Integers, Sequences, FiniteSets, TLC

VARIABLES
    cfg,          \* AppConfig.install, the InstallConfig the engine reads
    dry_run,      \* CommandExecutor._dry_run
    euid,         \* os.geteuid() of the process
    firmwareEfi,  \* /sys/firmware/efi exists on the running environment
    liveFiles,    \* files of the live root that rsync copies into the target
    mntWritable,  \* an unprivileged process may create entries under /mnt
    blk,          \* block-device metadata blkid reports, per device
    pc,           \* position of run_install
    error,        \* the exception run_install raised, "" when none
    loc,          \* run_install's locals: is_efi, root/efi/home/swap_part
    log,          \* progress events, executor calls and file operations, in order
    mounts,       \* mount points in effect (real mounts only)
    swapOn,       \* swap devices activated
    targetFiles,  \* files present below /mnt/vistula-target
    made,         \* directories and files the engine created or wrote itself
    faults,       \* tolerated (check=False) commands that failed in this run
    preview,      \* command lines of an earlier dry run of the same configuration
    wizard,       \* what the wizard's pages computed: the partition filter's prefix
                  \* and the fstab preview of the Summary page
    config_file,  \* config.json: empty when the file is absent, else its payload
    call,         \* a single call of CommandExecutor.run: its arguments
    result        \* what that call returned or raised

vars == <<cfg, dry_run, euid, firmwareEfi, liveFiles, mntWritable, blk, pc, error,
          loc, log, mounts, swapOn, targetFiles, made, faults, preview, wizard,
          config_file, call, result>>

\* what no step of run_install changes
env == <<cfg, euid, firmwareEfi, liveFiles, mntWritable, wizard, config_file, call, result>>

----------------------------------------------------------------------------
(* Bounds of the model *)

\* the software planner is called at most this many times on one selection
MaxPlannerCalls == 2

\* the wizard starts at most this many installations before it is closed
MaxInstalls == 2

\* the operator clicks "Scan Wi-Fi" and "Search" at most MaxScans times in all
MaxScans == 1

\* partitions of a disk are numbered 1..MaxPartIndex
MaxPartIndex == 4

\* build_fstab_content is called at most this many times on the same inputs
MaxFstabCalls == 2

\* at most this many tolerated (check=False) commands fail in one run
MaxToleratedFailures == 2

\* the exit statuses of a process are 0..MaxExitStatus
MaxExitStatus == 2

----------------------------------------------------------------------------
(* Strings *)

NONE == "<None>"

\* Python truthiness of an optional string: None and "" are false
Truthy(s) == s \notin {NONE, ""}

RECURSIVE Join(_)
Join(chars) == IF chars = <<>> THEN "" ELSE Head(chars) \o Join(Tail(chars))

\* `sub in s` on character sequences
Contains(s, sub) ==
    \E i \in 1..(Len(s) - Len(sub) + 1) : SubSeq(s, i, i + Len(sub) - 1) = sub

DiskSpellings ==
    { <<"/", "d", "e", "v", "/", "s", "d", "a">>,
      <<"/", "d", "e", "v", "/", "n", "v", "m", "e", "0", "n", "1">>,
      <<"/", "d", "e", "v", "/", "m", "m", "c", "b", "l", "k", "0">> }

Disks == { Join(c) : c \in DiskSpellings }

\* further disk paths, for the naming of partitions
OtherSpellings ==
    { <<"/", "d", "e", "v", "/", "s", "d", "b">>,
      <<"/", "d", "e", "v", "/", "v", "d", "a">>,
      <<"/", "d", "e", "v", "/", "x", "v", "d", "a">>,
      <<"/", "d", "e", "v", "/", "n", "v", "m", "e", "1", "n", "2">>,
      <<"/", "d", "e", "v", "/", "m", "m", "c", "b", "l", "k", "1">>,
      <<"/", "d", "e", "v", "/", "l", "o", "o", "p", "0">>,
      <<"/", "d", "e", "v", "/", "m", "d", "0">>,
      <<"/", "d", "e", "v", "/", "n", "b", "d", "0">> }

NamedDisks == { Join(c) : c \in DiskSpellings \cup OtherSpellings }

Spell(disk) == CHOOSE c \in DiskSpellings \cup OtherSpellings : Join(c) = disk

\* str.strip() on the SSIDs of the model
Strip(s) == IF s = " " THEN "" ELSE s

TARGET == "/mnt/vistula-target"

----------------------------------------------------------------------------
(* InstallConfig (core/config.py) *)

\* the dataclass defaults, with a disk and a password chosen
DefaultInstall ==
    [ target_disk |-> NONE, erase_disk |-> FALSE,
      root_partition |-> "", efi_partition |-> "",
      home_partition |-> "", swap_partition |-> "",
      format_root |-> TRUE, format_efi |-> FALSE,
      format_home |-> FALSE, format_swap |-> FALSE,
      hostname |-> "vistula", username |-> "user", password |-> "",
      timezone |-> "Europe/Warsaw", keyboard_layout |-> "pl",
      locale |-> "pl_PL.UTF-8", generate_all_locales_arch |-> FALSE,
      enable_networkmanager |-> TRUE, wifi_ssid |-> "", wifi_password |-> "",
      software |-> {}, flatpak_apps |-> <<>> ]

\* dict.get(key, default) on the install object of the file
Get(d, key, default) == IF key \in DOMAIN d THEN d[key] ELSE default

\* str(x) of a JSON string or null
Str(x) == IF x = NONE THEN "None" ELSE x

\* str(x or "") of a JSON string or null
StrOrEmpty(x) == IF Truthy(x) THEN x ELSE ""

\* a save that writes the configuration as it is in memory
save_Plain(install) == [ valid |-> TRUE, install |-> install ]

\* AppConfig.save: the payload written to config.json
save(install) ==
    [ valid |-> TRUE,
      install |-> [install EXCEPT !.password = "", !.wifi_password = ""] ]

\* AppConfig.load: the defaults, overlaid with what a readable file holds
load(file) ==
    IF file = <<>> THEN DefaultInstall
    ELSE IF ~file[1].valid THEN DefaultInstall
    ELSE LET install == file[1].install IN
         [DefaultInstall EXCEPT
            !.target_disk = Get(install, "target_disk", @),
            !.erase_disk = Get(install, "erase_disk", @),
            !.root_partition = StrOrEmpty(Get(install, "root_partition", @)),
            !.efi_partition = StrOrEmpty(Get(install, "efi_partition", @)),
            !.home_partition = StrOrEmpty(Get(install, "home_partition", @)),
            !.swap_partition = StrOrEmpty(Get(install, "swap_partition", @)),
            !.format_root = Get(install, "format_root", @),
            !.format_efi = Get(install, "format_efi", @),
            !.format_home = Get(install, "format_home", @),
            !.format_swap = Get(install, "format_swap", @),
            !.hostname = Str(Get(install, "hostname", @)),
            !.username = Str(Get(install, "username", @)),
            !.timezone = Str(Get(install, "timezone", @)),
            !.keyboard_layout = Str(Get(install, "keyboard_layout", @)),
            !.locale = Str(Get(install, "locale", @)),
            !.generate_all_locales_arch = Get(install, "generate_all_locales_arch", @),
            !.enable_networkmanager = Get(install, "enable_networkmanager", @),
            !.wifi_ssid = Str(Get(install, "wifi_ssid", @)),
            !.software = Get(install, "software", @),
            !.flatpak_apps = Get(install, "flatpak_apps", @)]

----------------------------------------------------------------------------
(* SoftwarePlanner (core/software.py).  A selection is the set of the       *)
(* SoftwareSelection fields that are true.                                  *)

\* InstallConfig attribute -> SoftwareSelection field
SelectionField(attr) ==
    CASE attr = "profile_gamers" -> "gamers"
      [] attr = "profile_creators" -> "creators"
      [] attr = "profile_accountants" -> "accountants"
      [] attr = "profile_developers" -> "developers"
      [] attr = "driver_nvidia" -> "nvidia_driver"
      [] OTHER -> attr

selection_from_config(install) == { SelectionField(a) : a \in install.software }

When(cond, items) == IF cond THEN items ELSE <<>>

RECURSIVE DedupFrom(_, _)
DedupFrom(seq, seen) ==
    IF seq = <<>> THEN <<>>
    ELSE IF Head(seq) \in seen THEN DedupFrom(Tail(seq), seen)
    ELSE <<Head(seq)>> \o DedupFrom(Tail(seq), seen \cup {Head(seq)})

\* "Deduplicate, stable order"
Dedup(seq) == DedupFrom(seq, {})

\* a planner that lists the developers' packages first
arch_packages_for_selection_DevelopersFirst(sel) ==
    Dedup(
        When("developers" \in sel /\ "developers_git" \in sel, <<"git">>)
     \o When("developers" \in sel /\ "developers_base_devel" \in sel, <<"base-devel">>)
     \o When("developers" \in sel /\ "developers_python" \in sel, <<"python">>)
     \o When("developers" \in sel /\ "developers_nodejs" \in sel, <<"nodejs", "npm">>)
     \o When("nvidia_driver" \in sel, <<"nvidia", "nvidia-utils", "lib32-nvidia-utils">>)
     \o When("gamers" \in sel /\ "gamers_wine" \in sel, <<"wine", "winetricks">>)
     \o When("gamers" \in sel /\ "gamers_mangohud" \in sel, <<"mangohud">>)
     \o When("gamers" \in sel /\ "gamers_gamemode" \in sel, <<"gamemode">>))

arch_packages_for_selection(sel) ==
    Dedup(
        When("nvidia_driver" \in sel, <<"nvidia", "nvidia-utils", "lib32-nvidia-utils">>)
     \o When("gamers" \in sel /\ "gamers_wine" \in sel, <<"wine", "winetricks">>)
     \o When("gamers" \in sel /\ "gamers_mangohud" \in sel, <<"mangohud">>)
     \o When("gamers" \in sel /\ "gamers_gamemode" \in sel, <<"gamemode">>)
     \o When("developers" \in sel /\ "developers_git" \in sel, <<"git">>)
     \o When("developers" \in sel /\ "developers_base_devel" \in sel, <<"base-devel">>)
     \o When("developers" \in sel /\ "developers_python" \in sel, <<"python">>)
     \o When("developers" \in sel /\ "developers_nodejs" \in sel, <<"nodejs", "npm">>))

\* a planner whose Steam flag needs no bundle flag
flatpak_appids_for_selection_NoParent(sel) ==
    Dedup(
        When("gamers_steam" \in sel, <<"com.valvesoftware.Steam">>)
     \o When("gamers" \in sel /\ "gamers_lutris" \in sel, <<"net.lutris.Lutris">>)
     \o When("creators" \in sel /\ "creators_gimp" \in sel, <<"org.gimp.GIMP">>)
     \o When("creators" \in sel /\ "creators_inkscape" \in sel, <<"org.inkscape.Inkscape">>)
     \o When("creators" \in sel /\ "creators_blender" \in sel, <<"org.blender.Blender">>)
     \o When("creators" \in sel /\ "creators_kdenlive" \in sel, <<"org.kde.kdenlive">>)
     \o When("creators" \in sel /\ "creators_audacity" \in sel, <<"org.audacityteam.Audacity">>)
     \o When("accountants" \in sel /\ "accountants_libreoffice" \in sel,
             <<"org.libreoffice.LibreOffice">>)
     \o When("accountants" \in sel /\ "accountants_gnucash" \in sel, <<"org.gnucash.GnuCash">>)
     \o When("developers" \in sel /\ "developers_vscode" \in sel, <<"com.visualstudio.code">>))

flatpak_appids_for_selection(sel) ==
    Dedup(
        When("gamers" \in sel /\ "gamers_steam" \in sel, <<"com.valvesoftware.Steam">>)
     \o When("gamers" \in sel /\ "gamers_lutris" \in sel, <<"net.lutris.Lutris">>)
     \o When("creators" \in sel /\ "creators_gimp" \in sel, <<"org.gimp.GIMP">>)
     \o When("creators" \in sel /\ "creators_inkscape" \in sel, <<"org.inkscape.Inkscape">>)
     \o When("creators" \in sel /\ "creators_blender" \in sel, <<"org.blender.Blender">>)
     \o When("creators" \in sel /\ "creators_kdenlive" \in sel, <<"org.kde.kdenlive">>)
     \o When("creators" \in sel /\ "creators_audacity" \in sel, <<"org.audacityteam.Audacity">>)
     \o When("accountants" \in sel /\ "accountants_libreoffice" \in sel,
             <<"org.libreoffice.LibreOffice">>)
     \o When("accountants" \in sel /\ "accountants_gnucash" \in sel, <<"org.gnucash.GnuCash">>)
     \o When("developers" \in sel /\ "developers_vscode" \in sel, <<"com.visualstudio.code">>))

----------------------------------------------------------------------------
(* CommandExecutor (core/executor.py) *)

\* run with allow_in_dry_run ignored: a dry-run executor starts no process at all
run_NeverInDryRun(dry, args, check, allow_in_dry_run, rc, out) ==
    IF dry
    THEN [ returned |-> TRUE, executed |-> FALSE, raised |-> FALSE,
           prefix |-> "[DRY-RUN] ", returncode |-> 0, stdout |-> "", stderr |-> "" ]
    ELSE [ returned |-> ~(check /\ rc # 0), executed |-> TRUE, raised |-> check /\ rc # 0,
           prefix |-> "$ ", returncode |-> rc, stdout |-> out,
           stderr |-> IF rc = 0 THEN "" ELSE "error" ]

\* run with check ignored: a non-zero return code never raises
run_NeverRaises(dry, args, check, allow_in_dry_run, rc, out) ==
    IF dry /\ ~allow_in_dry_run
    THEN [ returned |-> TRUE, executed |-> FALSE, raised |-> FALSE,
           prefix |-> "[DRY-RUN] ", returncode |-> 0, stdout |-> "", stderr |-> "" ]
    ELSE [ returned |-> TRUE, executed |-> TRUE, raised |-> FALSE,
           prefix |-> "$ ", returncode |-> rc, stdout |-> out,
           stderr |-> IF rc = 0 THEN "" ELSE "error" ]

\* CommandExecutor.run.  `rc` and `out` are the exit status and the standard
\* output the process gives if it is started.  `executed` tells whether a
\* process was started, `raised` whether run raises RuntimeError.
run(dry, args, check, allow_in_dry_run, rc, out) ==
    IF dry /\ ~allow_in_dry_run
    THEN [ returned |-> TRUE, executed |-> FALSE, raised |-> FALSE,
           prefix |-> "[DRY-RUN] ", returncode |-> 0, stdout |-> "", stderr |-> "" ]
    ELSE [ returned |-> ~(check /\ rc # 0), executed |-> TRUE, raised |-> check /\ rc # 0,
           prefix |-> "$ ", returncode |-> rc, stdout |-> out,
           stderr |-> IF rc = 0 THEN "" ELSE "error" ]

\* the wizard before any of its pages was shown
NoWizard == [ prefix |-> NONE, fstab |-> NONE ]

NoCall == [ args |-> <<>>, check |-> FALSE, allow_in_dry_run |-> FALSE, rc |-> 0 ]

NoResult ==
    [ returned |-> FALSE, executed |-> FALSE, raised |-> FALSE, prefix |-> "",
      returncode |-> 0, stdout |-> "", stderr |-> "" ]

\* the calls of the executor taken one at a time
Calls ==
    [ args : { <<"wipefs", "-a", "/dev/sda">>, <<"lsblk", "-J">>,
               <<"chroot", "/mnt/vistula-target", "chpasswd">> },
      check : BOOLEAN, allow_in_dry_run : BOOLEAN, rc : 0..MaxExitStatus ]

----------------------------------------------------------------------------
(* The environment: block devices and the processes the executor starts *)

Digit(n) == <<"1", "2", "3", "4", "5", "6", "7", "8", "9">>[n]

\* the kernel's name of partition n of a disk: a "p" follows a trailing digit
KernelPartName(disk, n) ==
    IF Spell(disk)[Len(Spell(disk))] \in {"0", "1", "2", "3", "4", "5", "6", "7", "8", "9"}
    THEN disk \o "p" \o Digit(n)
    ELSE disk \o Digit(n)

PartsOf(disk) == { KernelPartName(disk, n) : n \in 1..4 }

Devices == UNION { PartsOf(d) : d \in Disks }

\* blkid reports nothing for the device
NoMeta == [ partuuid |-> "", uuid |-> "", type |-> "" ]

\* metadata left by an earlier installation
OldMeta == [ partuuid |-> "PU-old", uuid |-> "U-old", type |-> "ext4" ]

\* exit status of `blkid -o export dev`: 2 when nothing is known of the device
BlkidStatus(b, dev) == IF dev \in DOMAIN b /\ b[dev] # NoMeta THEN 0 ELSE 2

BlkidOutput(b, dev) == IF dev \in DOMAIN b THEN b[dev] ELSE NoMeta

\* What a command does when it is really executed and succeeds.  `st` holds
\* mounts, swapOn, targetFiles and blk.
Effect(argv, st) ==
    LET c == argv[1] IN
    CASE c = "mount" -> [st EXCEPT !.mounts = @ \cup {argv[Len(argv)]}]
      [] c = "swapon" -> [st EXCEPT !.swapOn = @ \cup {argv[2]}]
      [] c = "swapoff" -> [st EXCEPT !.swapOn = @ \ {argv[2]}]
      [] c = "umount" -> [st EXCEPT !.mounts = {}, !.targetFiles = {}]
      [] c = "rsync" -> [st EXCEPT !.targetFiles = @ \cup liveFiles]
      [] c = "parted" /\ argv[4] = "mklabel" ->
            [st EXCEPT !.blk = [d \in DOMAIN @ |->
                                   IF d \in PartsOf(argv[3]) THEN NoMeta ELSE @[d]]]
      [] c = "parted" /\ argv[4] = "mkpart" ->
            [st EXCEPT !.blk[KernelPartName(argv[3], IF argv[5] = "EFI" THEN 1 ELSE 2)] =
                           [NoMeta EXCEPT !.partuuid = "PU-new"]]
      [] c = "mkfs.vfat" ->
            [st EXCEPT !.blk[argv[4]] = [@ EXCEPT !.uuid = "U-new", !.type = "vfat"]]
      [] c = "mkfs.ext4" ->
            [st EXCEPT !.blk[argv[3]] = [@ EXCEPT !.uuid = "U-new", !.type = "ext4"]]
      [] c = "mkswap" ->
            [st EXCEPT !.blk[argv[2]] = [@ EXCEPT !.uuid = "U-new", !.type = "swap"]]
      [] OTHER -> st

\* the permission bits of a file Path.write_text creates: 0o666 masked by the
\* umask of the process, 022 for root
CreatedMode == "0644"

----------------------------------------------------------------------------
(* Log entries *)

\* step(pct, msg): a progress event
Ev(pct, msg) ==
    [ kind |-> "step", pct |-> pct, msg |-> msg, argv |-> <<>>,
      executed |-> FALSE, rc |-> 0, check |-> FALSE, input |-> "" ]

\* a call of CommandExecutor.run: the logged command line and its result
Cmd(prefix, argv, executed, rc, check, input) ==
    [ kind |-> "cmd", pct |-> 0, msg |-> prefix, argv |-> argv,
      executed |-> executed, rc |-> rc, check |-> check, input |-> input ]

\* a file operation of the engine itself: done (executed) or only logged
Fs(op, path, content, done) ==
    [ kind |-> "fs", pct |-> 0, msg |-> op, argv |-> <<path>>,
      executed |-> done, rc |-> 0, check |-> FALSE, input |-> content ]

----------------------------------------------------------------------------
(* The operations a step of run_install performs, in program order *)

Step(pct, msg) == [ op |-> "step", pct |-> pct, msg |-> msg ]

\* a command wrongly marked as allowed in dry-run
C_AllowedInDryRun(argv) ==
    [ op |-> "cmd", argv |-> argv, check |-> TRUE, allow |-> TRUE, input |-> "" ]

\* self._executor.run(argv): check=True, not allowed in dry-run
C(argv) == [ op |-> "cmd", argv |-> argv, check |-> TRUE, allow |-> FALSE, input |-> "" ]

\* self._executor.run(argv, check=False)
CT(argv) == [ op |-> "cmd", argv |-> argv, check |-> FALSE, allow |-> FALSE, input |-> "" ]

\* self._executor.run(argv, input_text=text)
CI(argv, text) ==
    [ op |-> "cmd", argv |-> argv, check |-> TRUE, allow |-> FALSE, input |-> text ]

\* a file operation the engine performs in every mode
FsAlways(what, path) ==
    [ op |-> "fs", what |-> what, path |-> path, content |-> "", always |-> TRUE,
      logged |-> FALSE ]

\* a file operation a dry run skips without a log line
FsReal(what, path) ==
    [ op |-> "fs", what |-> what, path |-> path, content |-> "", always |-> FALSE,
      logged |-> FALSE ]

\* a file write a dry run replaces by a log line
FsWrite(path, content) ==
    [ op |-> "fs", what |-> "write", path |-> path, content |-> content,
      always |-> FALSE, logged |-> TRUE ]

\* an exception of the interpreter itself
Raise(exc) == [ op |-> "raise", exc |-> exc ]

\* a metadata query that a dry-run executor only simulates
Blkid_Simulated(dev) ==
    [ op |-> "cmd", argv |-> <<"blkid", "-o", "export", dev>>, check |-> FALSE,
      allow |-> FALSE, input |-> "" ]

\* _blkid_export's call of the executor: allowed in dry-run, never checked
Blkid(dev) ==
    [ op |-> "cmd", argv |-> <<"blkid", "-o", "export", dev>>, check |-> FALSE,
      allow |-> TRUE, input |-> "" ]

IsBlkid(o) == o.op = "cmd" /\ o.argv[1] = "blkid"

\* RuntimeError(f"Command failed ({cp.returncode}): {cmd}")
CommandFailed == "RuntimeError: Command failed"

\* the PermissionError of Path.mkdir / Path.write_text without write access
Denied == "PermissionError: [Errno 13] Permission denied"

\* the executor's result for operation o when the process, if started, exits
\* with status rc
Result(o, rc, st) ==
    IF IsBlkid(o)
    THEN run(dry_run, o.argv, o.check, o.allow,
             BlkidStatus(st.blk, o.argv[4]), BlkidOutput(st.blk, o.argv[4]))
    ELSE run(dry_run, o.argv, o.check, o.allow, rc, "")

\* an engine whose step() reports every progress event twice
Do_ReportTwice(o, rc, st) ==
    CASE o.op = "step" ->
            [st EXCEPT !.log = Append(Append(@, Ev(o.pct, o.msg)), Ev(o.pct, o.msg))]
      [] o.op = "raise" ->
            [st EXCEPT !.error = o.exc]
      [] o.op = "cmd" ->
            LET r == Result(o, rc, st)
                logged == [st EXCEPT !.log = Append(@, Cmd(r.prefix, o.argv, r.executed,
                                                           r.returncode, o.check, o.input))]
            IN  IF r.raised THEN [logged EXCEPT !.error = CommandFailed]
                ELSE IF ~r.executed THEN logged
                ELSE IF r.returncode = 0 THEN Effect(o.argv, logged)
                ELSE IF IsBlkid(o) THEN logged
                ELSE [logged EXCEPT !.faults = @ + 1]
      [] o.op = "fs" ->
            IF o.always \/ ~dry_run
            THEN IF euid # 0 /\ ~mntWritable
                 THEN [st EXCEPT !.error = Denied]
                 ELSE [st EXCEPT !.made = @ \cup {o.path},
                                 !.log = Append(@, Fs(o.what, o.path, o.content, TRUE))]
            ELSE IF o.logged
                 THEN [st EXCEPT !.log = Append(@, Fs(o.what, o.path, o.content, FALSE))]
                 ELSE st

\* One operation of a step, performed on the run's state st
Do(o, rc, st) ==
    CASE o.op = "step" ->
            [st EXCEPT !.log = Append(@, Ev(o.pct, o.msg))]
      [] o.op = "raise" ->
            [st EXCEPT !.error = o.exc]
      [] o.op = "cmd" ->
            LET r == Result(o, rc, st)
                logged == [st EXCEPT !.log = Append(@, Cmd(r.prefix, o.argv, r.executed,
                                                           r.returncode, o.check, o.input))]
            IN  IF r.raised THEN [logged EXCEPT !.error = CommandFailed]
                ELSE IF ~r.executed THEN logged
                ELSE IF r.returncode = 0 THEN Effect(o.argv, logged)
                ELSE IF IsBlkid(o) THEN logged
                ELSE [logged EXCEPT !.faults = @ + 1]
      [] o.op = "fs" ->
            IF o.always \/ ~dry_run
            THEN IF euid # 0 /\ ~mntWritable
                 THEN [st EXCEPT !.error = Denied]
                 ELSE [st EXCEPT !.made = @ \cup {o.path},
                                 !.log = Append(@, Fs(o.what, o.path, o.content, TRUE))]
            ELSE IF o.logged
                 THEN [st EXCEPT !.log = Append(@, Fs(o.what, o.path, o.content, FALSE))]
                 ELSE st

\* an engine that goes on after an operation raised
RECURSIVE Exec_Continue(_, _, _, _)
Exec_Continue(ops, failing, i, st) ==
    IF i > Len(ops) THEN st
    ELSE Exec_Continue(ops, failing, i + 1, Do(ops[i], IF i \in failing THEN 1 ELSE 0, st))

\* The operations ops[i..] in order, stopping at the first one that raises.
\* `failing` holds the indexes of the commands whose process exits non-zero.
RECURSIVE Exec(_, _, _, _)
Exec(ops, failing, i, st) ==
    IF i > Len(ops) \/ st.error # "" THEN st
    ELSE Exec(ops, failing, i + 1, Do(ops[i], IF i \in failing THEN 1 ELSE 0, st))

\* the commands of ops whose exit status the environment chooses
Fallible(ops) ==
    { i \in 1..Len(ops) :
        /\ ops[i].op = "cmd"
        /\ ~IsBlkid(ops[i])
        /\ ~(dry_run /\ ~ops[i].allow) }

\* The sets of commands of ops that may fail together: any tolerated commands,
\* and at most one check=True command, the last to fail since the run stops there.
\* None fails in the real run that follows a preview: it is the run a preview
\* is compared with, in which every command succeeds.
Failures(ops) ==
    IF preview # <<>> THEN {{}}
    ELSE { f \in SUBSET Fallible(ops) :
             \A i \in f : ops[i].check => \A j \in f : j <= i }

\* the run's state as Exec transforms it
Run ==
    [ log |-> log, mounts |-> mounts, swapOn |-> swapOn, targetFiles |-> targetFiles,
      made |-> made, blk |-> blk, faults |-> faults, error |-> error ]

\* an engine that undoes its mounts when an operation raises
Perform_WithRollback(ops, next) ==
    \E failing \in Failures(ops) :
        LET st == Exec(ops, failing, 1, Run) IN
        /\ st.faults <= MaxToleratedFailures
        /\ log' = st.log
        /\ mounts' = IF st.error = "" THEN st.mounts ELSE {}
        /\ swapOn' = IF st.error = "" THEN st.swapOn ELSE {}
        /\ targetFiles' = st.targetFiles
        /\ made' = st.made
        /\ blk' = st.blk
        /\ faults' = st.faults
        /\ error' = st.error
        /\ pc' = IF st.error = "" THEN next ELSE "raised"
        /\ UNCHANGED <<env, dry_run, preview>>

\* run_install performs ops and goes on at `next` unless one of them raises
Perform(ops, next) ==
    \E failing \in Failures(ops) :
        LET st == Exec(ops, failing, 1, Run) IN
        /\ st.faults <= MaxToleratedFailures
        /\ log' = st.log
        /\ mounts' = st.mounts
        /\ swapOn' = st.swapOn
        /\ targetFiles' = st.targetFiles
        /\ made' = st.made
        /\ blk' = st.blk
        /\ faults' = st.faults
        /\ error' = st.error
        /\ pc' = IF st.error = "" THEN next ELSE "raised"
        /\ UNCHANGED <<env, dry_run, preview>>

----------------------------------------------------------------------------
(* IdentifierResolver and SystemTableBuilder (core/installer.py) *)

\* _blkid_export: the exported metadata, nothing when blkid exits non-zero
_blkid_export(b, dev) ==
    LET res == run(dry_run, <<"blkid", "-o", "export", dev>>, FALSE, TRUE,
                   BlkidStatus(b, dev), BlkidOutput(b, dev))
    IN  IF res.returncode # 0 THEN NoMeta ELSE res.stdout

\* an identifier lookup that prefers the UUID to the PARTUUID
_fstab_ident_UuidFirst(b, dev) ==
    LET info == _blkid_export(b, dev) IN
    IF info.uuid # "" THEN <<"UUID", info.uuid>>
    ELSE IF info.partuuid # "" THEN <<"PARTUUID", info.partuuid>>
    ELSE <<>>

\* _fstab_ident: <<kind, value>>, or <<>> for None
_fstab_ident(b, dev) ==
    LET info == _blkid_export(b, dev) IN
    IF info.partuuid # "" THEN <<"PARTUUID", info.partuuid>>
    ELSE IF info.uuid # "" THEN <<"UUID", info.uuid>>
    ELSE <<>>

_fstype(b, dev, fallback) ==
    LET info == _blkid_export(b, dev) IN
    IF info.type # "" THEN info.type ELSE fallback

devref(b, dev) ==
    LET ident == _fstab_ident(b, dev) IN
    IF ident = <<>> THEN dev ELSE ident[1] \o "=" \o ident[2]

\* a table builder that lists swap first and gives the EFI line pass number 2
build_fstab_content_SwapFirst(b, root_part, efi_part, home_part, swap_part) ==
    Join(
        When(Truthy(swap_part), <<devref(b, swap_part) \o " none swap sw 0 0\n">>)
     \o <<devref(b, root_part) \o " / " \o _fstype(b, root_part, "ext4") \o " defaults 0 1\n">>
     \o When(Truthy(efi_part),
             <<devref(b, efi_part) \o " /boot/efi " \o _fstype(b, efi_part, "vfat")
               \o " umask=0077 0 2\n">>)
     \o When(Truthy(home_part),
             <<devref(b, home_part) \o " /home " \o _fstype(b, home_part, "ext4")
               \o " defaults 0 2\n">>))

\* build_fstab_content: the lines of the mount table, joined
build_fstab_content(b, root_part, efi_part, home_part, swap_part) ==
    Join(
        <<devref(b, root_part) \o " / " \o _fstype(b, root_part, "ext4") \o " defaults 0 1\n">>
     \o When(Truthy(efi_part),
             <<devref(b, efi_part) \o " /boot/efi " \o _fstype(b, efi_part, "vfat")
               \o " umask=0077 0 1\n">>)
     \o When(Truthy(home_part),
             <<devref(b, home_part) \o " /home " \o _fstype(b, home_part, "ext4")
               \o " defaults 0 2\n">>)
     \o When(Truthy(swap_part), <<devref(b, swap_part) \o " none swap sw 0 0\n">>))

\* the blkid queries build_fstab_content makes, in order
FstabQueries(root_part, efi_part, home_part, swap_part) ==
        <<Blkid(root_part), Blkid(root_part)>>
     \o When(Truthy(efi_part), <<Blkid(efi_part), Blkid(efi_part)>>)
     \o When(Truthy(home_part), <<Blkid(home_part), Blkid(home_part)>>)
     \o When(Truthy(swap_part), <<Blkid(swap_part)>>)

\* _write_fstab
_write_fstab(b, root_part, efi_part, home_part, swap_part) ==
        <<FsAlways("mkdir", TARGET \o "/etc")>>
     \o FstabQueries(root_part, efi_part, home_part, swap_part)
     \o <<FsWrite(TARGET \o "/etc/fstab",
                  build_fstab_content(b, root_part, efi_part, home_part, swap_part))>>

----------------------------------------------------------------------------
(* InstallerEngine (core/installer.py) *)

\* validate_ready without the password check
validate_ready_NoPasswordCheck(install, efi_exists) ==
    IF ~Truthy(install.target_disk) THEN "ValueError: No target disk selected"
    ELSE IF ~install.erase_disk /\ ~Truthy(install.root_partition)
    THEN "ValueError: No root partition selected"
    ELSE IF ~install.erase_disk /\ efi_exists /\ ~Truthy(install.efi_partition)
    THEN "ValueError: EFI partition is required for UEFI systems"
    ELSE ""

\* validate_ready that never looks at the firmware
validate_ready_NoFirmwareCheck(install, efi_exists) ==
    IF ~Truthy(install.target_disk) THEN "ValueError: No target disk selected"
    ELSE IF ~install.erase_disk /\ ~Truthy(install.root_partition)
    THEN "ValueError: No root partition selected"
    ELSE IF ~Truthy(install.password) THEN "ValueError: Password is required"
    ELSE ""

\* validate_ready asking for the EFI partition in erase mode too
validate_ready_EfiInEveryMode(install, efi_exists) ==
    IF ~Truthy(install.target_disk) THEN "ValueError: No target disk selected"
    ELSE IF ~install.erase_disk /\ ~Truthy(install.root_partition)
    THEN "ValueError: No root partition selected"
    ELSE IF efi_exists /\ ~Truthy(install.efi_partition)
    THEN "ValueError: EFI partition is required for UEFI systems"
    ELSE IF ~Truthy(install.password) THEN "ValueError: Password is required"
    ELSE ""

\* validate_ready: the ValueError it raises, "" when the configuration is ready
validate_ready(install, efi_exists) ==
    IF ~Truthy(install.target_disk) THEN "ValueError: No target disk selected"
    ELSE IF ~install.erase_disk /\ ~Truthy(install.root_partition)
    THEN "ValueError: No root partition selected"
    ELSE IF ~install.erase_disk /\ efi_exists /\ ~Truthy(install.efi_partition)
    THEN "ValueError: EFI partition is required for UEFI systems"
    ELSE IF ~Truthy(install.password) THEN "ValueError: Password is required"
    ELSE ""

NotRoot == "PermissionError: Installer must be run as root (or use --dry-run)"

\* run_install up to its first step: validation and the privilege check
PreflightError ==
    LET invalid == validate_ready(cfg, firmwareEfi) IN
    IF invalid # "" THEN invalid
    ELSE IF euid # 0 /\ ~dry_run THEN NotRoot
    ELSE ""

\* `x or None`
OrNone(x) == IF Truthy(x) THEN x ELSE NONE

\* _disk_prefix: what the partition number is appended to
_disk_prefix(disk) ==
    IF Contains(Spell(disk), <<"n", "v", "m", "e">>)
       \/ Contains(Spell(disk), <<"m", "m", "c", "b", "l", "k">>)
    THEN disk \o "p"
    ELSE disk

\* partition names that take a "p" after every disk name ending in a digit
ErasePartName_AfterDigit(disk, n) ==
    IF Spell(disk)[Len(Spell(disk))] \in {"0", "1", "2", "3", "4", "5", "6", "7", "8", "9"}
    THEN disk \o "p" \o Digit(n)
    ELSE disk \o Digit(n)

\* the partition names run_install predicts after repartitioning
ErasePartName(disk, n) ==
    IF Contains(Spell(disk), <<"n", "v", "m", "e">>)
       \/ Contains(Spell(disk), <<"m", "m", "c", "b", "l", "k">>)
    THEN disk \o "p" \o Digit(n)
    ELSE disk \o Digit(n)

\* a partitioning step that writes the new label before it wipes the signatures
PartitionOps_LabelFirst(disk) ==
    << Step(5, "Partitioning disk"),
       C(<<"parted", "-s", disk, "mklabel", "gpt">>),
       C(<<"wipefs", "-a", disk>>),
       C(<<"parted", "-s", disk, "mkpart", "EFI", "fat32", "1MiB", "513MiB">>),
       C(<<"parted", "-s", disk, "set", "1", "esp", "on">>),
       C(<<"parted", "-s", disk, "mkpart", "ROOT", "ext4", "513MiB", "100%">>) >>

PartitionOps(disk) ==
    << Step(5, "Partitioning disk"),
       C(<<"wipefs", "-a", disk>>),
       C(<<"parted", "-s", disk, "mklabel", "gpt">>),
       C(<<"parted", "-s", disk, "mkpart", "EFI", "fat32", "1MiB", "513MiB">>),
       C(<<"parted", "-s", disk, "set", "1", "esp", "on">>),
       C(<<"parted", "-s", disk, "mkpart", "ROOT", "ext4", "513MiB", "100%">>) >>

FormatEraseOps(l) ==
    << Step(15, "Formatting partitions"),
       C(<<"mkfs.vfat", "-F", "32", l.efi_part>>),
       C(<<"mkfs.ext4", "-F", l.root_part>>) >>

\* a manual flow that formats every configured partition, whatever its flag
FormatManualOps_IgnoreFlags(install, l) ==
       <<Step(10, "Formatting partitions")>>
    \o <<C(<<"mkfs.ext4", "-F", l.root_part>>)>>
    \o When(Truthy(l.efi_part), <<C(<<"mkfs.vfat", "-F", "32", l.efi_part>>)>>)
    \o When(Truthy(l.home_part), <<C(<<"mkfs.ext4", "-F", l.home_part>>)>>)
    \o When(Truthy(l.swap_part), <<C(<<"mkswap", l.swap_part>>)>>)

FormatManualOps(install, l) ==
       <<Step(10, "Formatting partitions")>>
    \o When(install.format_root, <<C(<<"mkfs.ext4", "-F", l.root_part>>)>>)
    \o When(Truthy(l.efi_part) /\ install.format_efi,
            <<C(<<"mkfs.vfat", "-F", "32", l.efi_part>>)>>)
    \o When(Truthy(l.home_part) /\ install.format_home,
            <<C(<<"mkfs.ext4", "-F", l.home_part>>)>>)
    \o When(Truthy(l.swap_part) /\ install.format_swap, <<C(<<"mkswap", l.swap_part>>)>>)

\* a mount step that mounts the EFI partition before the target root
MountOps_EfiFirst(l) ==
       <<Step(25, "Mounting target")>>
    \o When(Truthy(l.efi_part),
            << C(<<"mkdir", "-p", TARGET \o "/boot/efi">>),
               C(<<"mount", l.efi_part, TARGET \o "/boot/efi">>) >>)
    \o << C(<<"mkdir", "-p", TARGET>>),
          C(<<"mount", l.root_part, TARGET>>) >>
    \o When(Truthy(l.home_part),
            << C(<<"mkdir", "-p", TARGET \o "/home">>),
               C(<<"mount", l.home_part, TARGET \o "/home">>) >>)
    \o When(Truthy(l.swap_part), <<CT(<<"swapon", l.swap_part>>)>>)

MountOps(l) ==
       << Step(25, "Mounting target"),
          C(<<"mkdir", "-p", TARGET>>),
          C(<<"mount", l.root_part, TARGET>>) >>
    \o When(Truthy(l.home_part),
            << C(<<"mkdir", "-p", TARGET \o "/home">>),
               C(<<"mount", l.home_part, TARGET \o "/home">>) >>)
    \o When(Truthy(l.efi_part),
            << C(<<"mkdir", "-p", TARGET \o "/boot/efi">>),
               C(<<"mount", l.efi_part, TARGET \o "/boot/efi">>) >>)
    \o When(Truthy(l.swap_part), <<CT(<<"swapon", l.swap_part>>)>>)

CopyOps ==
    << Step(45, "Copying system files"),
       C(<<"rsync", "-aAXH", "--numeric-ids", "--exclude=/dev/*", "--exclude=/proc/*",
           "--exclude=/sys/*", "--exclude=/run/*", "--exclude=/tmp/*", "--exclude=/mnt/*",
           "--exclude=/media/*", "--exclude=/lost+found", "/", TARGET>>) >>

FstabOps(b, l) ==
       <<Step(60, "Writing fstab")>>
    \o _write_fstab(b, l.root_part, l.efi_part, l.home_part, l.swap_part)

ChrootOps ==
    << Step(75, "Preparing chroot"),
       C(<<"mount", "--bind", "/dev", TARGET \o "/dev">>),
       C(<<"mount", "--bind", "/proc", TARGET \o "/proc">>),
       C(<<"mount", "--bind", "/sys", TARGET \o "/sys">>) >>

Chroot(args) == <<"chroot", TARGET>> \o args

SystemOps(install, files) ==
       << Step(80, "Configuring system"),
          FsReal("mkdir", TARGET \o "/etc"),
          FsWrite(TARGET \o "/etc/hostname", install.hostname \o "\n"),
          FsWrite(TARGET \o "/etc/hosts",
                  "127.0.0.1\tlocalhost\n127.0.1.1\t" \o install.hostname
                  \o "\n\n::1\tlocalhost ip6-localhost ip6-loopback\n") >>
    \o When("usr/share/zoneinfo/" \o install.timezone \in files,
            << FsReal("mkdir", TARGET \o "/etc"),
               FsReal("symlink", TARGET \o "/etc/localtime") >>)
    \o << FsWrite(TARGET \o "/etc/timezone", install.timezone \o "\n"),
          FsReal("mkdir", TARGET \o "/etc/default"),
          FsWrite(TARGET \o "/etc/default/keyboard",
                  "XKBLAYOUT=\"" \o install.keyboard_layout \o "\"\n") >>

LocaleOps(install, files) ==
       << Step(82, "Configuring locale"),
          FsReal("mkdir", TARGET \o "/etc"),
          FsWrite(TARGET \o "/etc/locale.conf", "LANG=" \o install.locale \o "\n"),
          FsWrite(TARGET \o "/etc/vconsole.conf",
                  "KEYMAP=" \o install.keyboard_layout \o "\n") >>
    \o When("etc/locale.gen" \in files,
            << FsWrite(TARGET \o "/etc/locale.gen",
                       IF install.generate_all_locales_arch THEN ".UTF-8"
                       ELSE install.locale),
               CT(Chroot(<<"bash", "-lc",
                    "command -v locale-gen >/dev/null 2>&1 && locale-gen || true">>)) >>)

NetworkOps(install) ==
       <<Step(84, "Configuring network")>>
    \o When(install.enable_networkmanager,
            <<CT(Chroot(<<"bash", "-lc",
                "command -v systemctl >/dev/null 2>&1 && systemctl enable NetworkManager || true">>))>>)
    \o When(Strip(install.wifi_ssid) # "",
            << FsAlways("mkdir", TARGET \o "/etc/NetworkManager/system-connections"),
               FsWrite(TARGET \o "/etc/NetworkManager/system-connections/"
                          \o Strip(install.wifi_ssid) \o ".nmconnection",
                       "psk=" \o install.wifi_password \o "\n"),
               FsReal("chmod 0600", TARGET \o "/etc/NetworkManager/system-connections/"
                          \o Strip(install.wifi_ssid) \o ".nmconnection") >>)

\* a user step in which a failed useradd is fatal
UserOps_CreateFatal(install) ==
    << Step(85, "Creating user"),
       C(Chroot(<<"useradd", "-m", "-s", "/bin/bash", install.username>>)),
       CI(Chroot(<<"chpasswd">>), install.username \o ":" \o install.password \o "\n") >>

UserOps(install) ==
    << Step(85, "Creating user"),
       CT(Chroot(<<"useradd", "-m", "-s", "/bin/bash", install.username>>)),
       CI(Chroot(<<"chpasswd">>), install.username \o ":" \o install.password \o "\n") >>

\* the flatpaks list of the software step: explicit apps, then the planner's
FlatpakPlan(install) ==
    Dedup(install.flatpak_apps \o flatpak_appids_for_selection(selection_from_config(install)))

\* The software step.  `flatpaks` is bound only inside `if pkgs:`, so reading
\* it with no package selected raises UnboundLocalError.
SoftwareOps(install, files) ==
    LET pkgs == arch_packages_for_selection(selection_from_config(install))
        flatpaks == FlatpakPlan(install)
    IN     <<Step(88, "Installing optional software")>>
        \o (IF pkgs # <<>>
            THEN    When("usr/bin/pacman" \in files,
                         <<CT(Chroot(<<"pacman", "-S", "--noconfirm", "--needed">> \o pkgs))>>)
                 \o When(flatpaks # <<>> /\ "usr/bin/flatpak" \in files,
                         <<CT(Chroot(<<"flatpak", "remote-add", "--if-not-exists", "flathub",
                                       "https://flathub.org/repo/flathub.flatpakrepo">>))>>
                         \o [i \in 1..Len(flatpaks) |->
                               CT(Chroot(<<"flatpak", "install", "-y", "flathub",
                                           flatpaks[i]>>))])
            ELSE <<Raise("UnboundLocalError: cannot access local variable 'flatpaks'")>>)

\* a bootloader step that installs the BIOS variant whatever the firmware
BootloaderOps_AlwaysBios(disk, is_efi) ==
    << Step(90, "Installing bootloader"),
       C(Chroot(<<"grub-install", "--target=i386-pc", disk>>)),
       C(Chroot(<<"bash", "-lc",
           "command -v update-grub >/dev/null 2>&1 && update-grub || grub-mkconfig -o /boot/grub/grub.cfg">>)) >>

BootloaderOps(disk, is_efi) ==
    << Step(90, "Installing bootloader"),
       IF is_efi
       THEN C(Chroot(<<"grub-install", "--target=x86_64-efi", "--efi-directory=/boot/efi",
                       "--bootloader-id=VistulaOS">>))
       ELSE C(Chroot(<<"grub-install", "--target=i386-pc", disk>>)),
       C(Chroot(<<"bash", "-lc",
           "command -v update-grub >/dev/null 2>&1 && update-grub || grub-mkconfig -o /boot/grub/grub.cfg">>)) >>

\* a finalize step that reports (100, "Done") before it unmounts
FinalizeOps_DoneFirst(l) ==
       <<Step(95, "Finalizing"), Step(100, "Done")>>
    \o When(Truthy(l.swap_part), <<CT(<<"swapoff", l.swap_part>>)>>)
    \o <<CT(<<"umount", "-R", TARGET>>)>>

\* a finalize step for which a failed unmount is fatal
FinalizeOps_UmountFatal(l) ==
       <<Step(95, "Finalizing")>>
    \o When(Truthy(l.swap_part), <<CT(<<"swapoff", l.swap_part>>)>>)
    \o << C(<<"umount", "-R", TARGET>>), Step(100, "Done") >>

FinalizeOps(l) ==
       <<Step(95, "Finalizing")>>
    \o When(Truthy(l.swap_part), <<CT(<<"swapoff", l.swap_part>>)>>)
    \o << CT(<<"umount", "-R", TARGET>>), Step(100, "Done") >>

----------------------------------------------------------------------------
(* The configurations and environments of the model *)

BaseErase ==
    [DefaultInstall EXCEPT !.target_disk = "/dev/sda", !.erase_disk = TRUE,
                           !.password = "secret",
                           !.software = {"profile_developers", "developers_git"}]

BaseManual ==
    [BaseErase EXCEPT !.erase_disk = FALSE, !.root_partition = "/dev/sda2",
                      !.efi_partition = "/dev/sda1"]

\* what validate_ready and the privilege check look at
PreflightConfigs ==
    { [DefaultInstall EXCEPT !.target_disk = d, !.erase_disk = e, !.root_partition = r,
                             !.efi_partition = f, !.password = p] :
        d \in {NONE, "", "/dev/sda"}, e \in BOOLEAN, r \in {"", "/dev/sda2"},
        f \in {"", "/dev/sda1"}, p \in {"", "secret"} }

\* the formatting choices of the manual fields
FormatChoices == { {"root"}, {"efi", "home", "swap"} }

WithLayout(base, efi, home, swap, fmt) ==
    [base EXCEPT !.efi_partition = efi, !.home_partition = home, !.swap_partition = swap,
                 !.format_root = "root" \in fmt, !.format_efi = "efi" \in fmt,
                 !.format_home = "home" \in fmt, !.format_swap = "swap" \in fmt]

EraseConfigs ==
    { [c EXCEPT !.target_disk = d] :
        d \in Disks,
        c \in { BaseErase,
                WithLayout([BaseErase EXCEPT !.root_partition = "/dev/sda2"], "/dev/sda1",
                           "/dev/sda3", "/dev/sda4", {"root", "efi", "home", "swap"}) } }

ManualConfigs ==
    { WithLayout(BaseManual, efi, home, swap, fmt) :
        efi \in {"", "/dev/sda1"}, home \in {"", "/dev/sda3"}, swap \in {"", "/dev/sda4"},
        fmt \in FormatChoices }

NetworkConfigs ==
    { [BaseErase EXCEPT !.enable_networkmanager = nm, !.wifi_ssid = ssid,
                        !.wifi_password = "passphrase"] :
        nm \in BOOLEAN, ssid \in {"", " ", "home"} }

SoftwareChoices ==
    { {},
      {"developers_git"},
      {"profile_gamers", "gamers_steam"},
      {"profile_developers", "developers_git", "developers_nodejs"},
      {"profile_developers", "developers_git", "developers_vscode",
       "profile_gamers", "gamers_steam"} }

SoftwareConfigs ==
    { [b EXCEPT !.software = sw, !.flatpak_apps = apps] :
        b \in {BaseErase}, sw \in SoftwareChoices,
        apps \in {<<>>, <<"org.gimp.GIMP", "com.valvesoftware.Steam">>} }

\* every optional part at once
FullManual ==
    [WithLayout(BaseManual, "/dev/sda1", "/dev/sda3", "/dev/sda4", {"root", "swap"})
        EXCEPT !.wifi_ssid = "home", !.wifi_password = "passphrase",
               !.software = {"profile_developers", "developers_git", "developers_vscode"},
               !.flatpak_apps = <<"org.gimp.GIMP">>]

Configs == PreflightConfigs \cup EraseConfigs \cup ManualConfigs \cup NetworkConfigs
               \cup SoftwareConfigs \cup {FullManual}

FullLive ==
    {"etc/locale.gen", "usr/bin/pacman", "usr/bin/flatpak",
     "usr/share/zoneinfo/Europe/Warsaw"}

LiveRoots ==
    { {}, FullLive, {"etc/locale.gen", "usr/bin/flatpak"},
      {"usr/bin/pacman", "usr/share/zoneinfo/Europe/Warsaw"} }

NoLocals ==
    [ is_efi |-> FALSE, root_part |-> NONE, efi_part |-> NONE, home_part |-> NONE,
      swap_part |-> NONE ]

----------------------------------------------------------------------------
(* The state machine *)

Init ==
    /\ cfg \in Configs
    /\ dry_run \in BOOLEAN
    /\ euid \in {0, 1000}
    /\ mntWritable \in BOOLEAN
    /\ (euid = 0 => mntWritable)
    /\ firmwareEfi \in BOOLEAN
    /\ liveFiles \in LiveRoots
    /\ blk \in { [d \in Devices |-> NoMeta], [d \in Devices |-> OldMeta] }
    /\ pc = "start"
    /\ error = ""
    /\ loc = NoLocals
    /\ log = <<>>
    /\ mounts = {}
    /\ swapOn = {}
    /\ targetFiles = {}
    /\ made = {}
    /\ faults = 0
    /\ preview = <<>>
    /\ wizard = NoWizard
    /\ config_file = <<>>
    /\ call = NoCall
    /\ result = NoResult

\* SummaryPage.on_show: the names it expects the new partitions to have
SummaryPartName(disk, n) ==
    IF Contains(Spell(disk), <<"n", "v", "m", "e">>)
       \/ Contains(Spell(disk), <<"m", "m", "c", "b", "l", "k">>)
    THEN disk \o "p" \o Digit(n)
    ELSE disk \o Digit(n)

\* the Disk page's partition filter: partitions are listed when their path
\* starts with this prefix
FilterPrefix(disk) ==
    IF disk = "" THEN ""
    ELSE IF Contains(Spell(disk), <<"n", "v", "m", "e">>)
            \/ Contains(Spell(disk), <<"m", "m", "c", "b", "l", "k">>)
    THEN disk \o "p"
    ELSE disk

\* SummaryPage.on_show: the fstab preview, computed with the wizard's executor
\* from the partitions the configuration names or, in erase mode, from the
\* names the new partitions will have
SummaryFstab(install, b) ==
    IF install.erase_disk /\ Truthy(install.target_disk)
    THEN build_fstab_content(b, SummaryPartName(install.target_disk, 2),
                             SummaryPartName(install.target_disk, 1), NONE, NONE)
    ELSE build_fstab_content(b, install.root_partition, OrNone(install.efi_partition),
                             OrNone(install.home_partition), OrNone(install.swap_partition))

\* the wizard shows its Summary page, the page before the installation starts
ShowSummary ==
    /\ pc = "start"
    /\ wizard.fstab = NONE
    /\ wizard' = [wizard EXCEPT !.fstab = SummaryFstab(cfg, blk)]
    /\ UNCHANGED <<cfg, dry_run, euid, firmwareEfi, liveFiles, mntWritable, config_file, blk, pc, error,
                   loc, log, mounts, swapOn, targetFiles, made, faults, preview, call,
                   result>>

\* run_install, lines 214-231: validate_ready, the privilege check, the locals.
\* The wizard starts it from the Progress page, which follows the Summary page.
Preflight ==
    /\ pc = "start"
    /\ wizard.fstab # NONE
    /\ error' = PreflightError
    /\ pc' = IF error' # "" THEN "raised"
             ELSE IF cfg.erase_disk THEN "partition" ELSE "format_manual"
    /\ loc' = [NoLocals EXCEPT !.is_efi = firmwareEfi]
    /\ UNCHANGED <<env, dry_run, blk, log, mounts, swapOn, targetFiles, made, faults,
                   preview>>

\* an erase flow that also takes the home and swap partitions of the manual
\* fields
PartitionDisk_ManualFields ==
    /\ pc = "partition"
    /\ Perform(PartitionOps(cfg.target_disk), "format_erase")
    /\ loc' = [loc EXCEPT !.efi_part = ErasePartName(cfg.target_disk, 1),
                          !.root_part = ErasePartName(cfg.target_disk, 2),
                          !.home_part = OrNone(cfg.home_partition),
                          !.swap_part = OrNone(cfg.swap_partition)]

\* erase flow: step 5 and the predicted partition names
PartitionDisk ==
    /\ pc = "partition"
    /\ Perform(PartitionOps(cfg.target_disk), "format_erase")
    /\ loc' = [loc EXCEPT !.efi_part = ErasePartName(cfg.target_disk, 1),
                          !.root_part = ErasePartName(cfg.target_disk, 2)]

\* erase flow: step 15
FormatErase ==
    /\ pc = "format_erase"
    /\ Perform(FormatEraseOps(loc), "mount")
    /\ UNCHANGED loc

\* manual flow: the configured partitions and step 10
FormatManual ==
    /\ pc = "format_manual"
    /\ loc' = [loc EXCEPT !.root_part = cfg.root_partition,
                          !.efi_part = OrNone(cfg.efi_partition),
                          !.home_part = OrNone(cfg.home_partition),
                          !.swap_part = OrNone(cfg.swap_partition)]
    /\ Perform(FormatManualOps(cfg, loc'), "mount")

MountTarget ==
    /\ pc = "mount"
    /\ Perform(MountOps(loc), "copy")
    /\ UNCHANGED loc

CopySystem ==
    /\ pc = "copy"
    /\ Perform(CopyOps, "fstab")
    /\ UNCHANGED loc

WriteFstab ==
    /\ pc = "fstab"
    /\ Perform(FstabOps(blk, loc), "chroot")
    /\ UNCHANGED loc

PrepareChroot ==
    /\ pc = "chroot"
    /\ Perform(ChrootOps, "system")
    /\ UNCHANGED loc

ConfigureSystem ==
    /\ pc = "system"
    /\ Perform(SystemOps(cfg, targetFiles), "locale")
    /\ UNCHANGED loc

ConfigureLocale ==
    /\ pc = "locale"
    /\ Perform(LocaleOps(cfg, targetFiles), "network")
    /\ UNCHANGED loc

ConfigureNetwork ==
    /\ pc = "network"
    /\ Perform(NetworkOps(cfg), "user")
    /\ UNCHANGED loc

CreateUser ==
    /\ pc = "user"
    /\ Perform(UserOps(cfg), "software")
    /\ UNCHANGED loc

InstallSoftware ==
    /\ pc = "software"
    /\ Perform(SoftwareOps(cfg, targetFiles), "bootloader")
    /\ UNCHANGED loc

InstallBootloader ==
    /\ pc = "bootloader"
    /\ Perform(BootloaderOps(cfg.target_disk, loc.is_efi), "finalize")
    /\ UNCHANGED loc

Finalize ==
    /\ pc = "finalize"
    /\ Perform(FinalizeOps(loc), "done")
    /\ UNCHANGED loc

\* the command lines of a run's log
CommandLines(l) ==
    LET cmds == SelectSeq(l, LAMBDA e : e.kind = "cmd") IN
    [i \in 1..Len(cmds) |-> cmds[i].argv]

\* main(): the installer is started again without --dry-run, by root, on the
\* configuration a finished dry run previewed
Relaunch ==
    /\ pc \in {"done", "raised"}
    /\ dry_run
    /\ euid = 0
    /\ dry_run' = FALSE
    /\ preview' = <<CommandLines(log)>>
    /\ pc' = "start"
    /\ error' = ""
    /\ loc' = NoLocals
    /\ log' = <<>>
    /\ faults' = 0
    /\ wizard' = NoWizard
    /\ UNCHANGED <<cfg, euid, firmwareEfi, liveFiles, mntWritable, config_file, call, result, blk,
                   mounts, swapOn, targetFiles, made>>

Next ==
    \/ ShowSummary
    \/ Preflight
    \/ PartitionDisk
    \/ FormatErase
    \/ FormatManual
    \/ MountTarget
    \/ CopySystem
    \/ WriteFstab
    \/ PrepareChroot
    \/ ConfigureSystem
    \/ ConfigureLocale
    \/ ConfigureNetwork
    \/ CreateUser
    \/ InstallSoftware
    \/ InstallBootloader
    \/ Finalize
    \/ Relaunch

Spec == Init /\ [][Next]_vars

----------------------------------------------------------------------------
(* CommandExecutor.run on its own: one executor, one call *)

ExecutorInit ==
    /\ dry_run \in BOOLEAN
    /\ call \in Calls
    /\ result = NoResult
    /\ cfg = DefaultInstall
    /\ euid = 0
    /\ mntWritable = TRUE
    /\ firmwareEfi = FALSE
    /\ liveFiles = {}
    /\ blk = [d \in Devices |-> NoMeta]
    /\ pc = "idle"
    /\ error = ""
    /\ loc = NoLocals
    /\ log = <<>>
    /\ mounts = {}
    /\ swapOn = {}
    /\ targetFiles = {}
    /\ made = {}
    /\ faults = 0
    /\ preview = <<>>
    /\ wizard = NoWizard
    /\ config_file = <<>>

\* executor.run(args, check=..., allow_in_dry_run=...)
Call ==
    /\ result = NoResult
    /\ call # NoCall
    /\ result' = run(dry_run, call.args, call.check, call.allow_in_dry_run, call.rc, "output")
    /\ UNCHANGED <<cfg, dry_run, euid, firmwareEfi, liveFiles, mntWritable, config_file, blk, pc, error,
                   loc, log, mounts, swapOn, targetFiles, made, faults, preview, wizard,
                   call>>

ExecutorNext == Call

SpecExecutor == ExecutorInit /\ [][ExecutorNext]_vars

----------------------------------------------------------------------------
(* build_fstab_content on its own: called repeatedly on the same partitions *)
(* with the same blkid answers                                              *)

\* the partition arguments: root always, EFI, home and swap present or absent
FstabInputs ==
    { [DefaultInstall EXCEPT !.root_partition = "/dev/sda2", !.efi_partition = efi,
                             !.home_partition = home, !.swap_partition = swap] :
        efi \in {"", "/dev/sda1"}, home \in {"", "/dev/sda3"}, swap \in {"", "/dev/sda4"} }

\* what blkid may answer for a device
MetaChoices ==
    { NoMeta, OldMeta,
      [ partuuid |-> "ABCD", uuid |-> "", type |-> "" ],
      [ partuuid |-> "", uuid |-> "U-1", type |-> "xfs" ] }

FstabAnswers ==
    { [d \in Devices |-> IF d \in DOMAIN m THEN m[d] ELSE NoMeta] :
        m \in [PartsOf("/dev/sda") -> MetaChoices] }

FstabInit ==
    /\ cfg \in FstabInputs
    /\ blk \in FstabAnswers
    /\ dry_run \in BOOLEAN
    /\ pc = "fstab"
    /\ preview = <<>>
    /\ euid = 0
    /\ mntWritable = TRUE
    /\ firmwareEfi = FALSE
    /\ liveFiles = {}
    /\ error = ""
    /\ loc = NoLocals
    /\ log = <<>>
    /\ mounts = {}
    /\ swapOn = {}
    /\ targetFiles = {}
    /\ made = {}
    /\ faults = 0
    /\ wizard = NoWizard
    /\ config_file = <<>>
    /\ call = NoCall
    /\ result = NoResult

\* one call of build_fstab_content: its blkid queries go through the executor,
\* its result is appended to `preview`
BuildFstab ==
    /\ pc = "fstab"
    /\ Len(preview) < MaxFstabCalls
    /\ LET root_part == cfg.root_partition
           efi_part == OrNone(cfg.efi_partition)
           home_part == OrNone(cfg.home_partition)
           swap_part == OrNone(cfg.swap_partition)
           st == Exec(FstabQueries(root_part, efi_part, home_part, swap_part), {}, 1, Run)
       IN  /\ preview' = Append(preview, build_fstab_content(st.blk, root_part, efi_part,
                                                             home_part, swap_part))
           /\ log' = st.log
           /\ blk' = st.blk
           /\ mounts' = st.mounts
           /\ swapOn' = st.swapOn
           /\ targetFiles' = st.targetFiles
           /\ made' = st.made
           /\ faults' = st.faults
           /\ error' = st.error
    /\ UNCHANGED <<env, dry_run, pc, loc>>

FstabNext == BuildFstab

SpecFstab == FstabInit /\ [][FstabNext]_vars

----------------------------------------------------------------------------
(* The naming of partitions: the three places that derive the names of the  *)
(* partitions of the selected disk                                          *)

NamingInit ==
    /\ cfg \in { [BaseErase EXCEPT !.target_disk = d] : d \in NamedDisks }
    /\ dry_run \in BOOLEAN
    /\ blk = [d \in Devices |-> NoMeta]
    /\ pc = "start"
    /\ euid = 0
    /\ mntWritable = TRUE
    /\ firmwareEfi = TRUE
    /\ liveFiles = {}
    /\ error = ""
    /\ loc = NoLocals
    /\ log = <<>>
    /\ mounts = {}
    /\ swapOn = {}
    /\ targetFiles = {}
    /\ made = {}
    /\ faults = 0
    /\ preview = <<>>
    /\ wizard = NoWizard
    /\ config_file = <<>>
    /\ call = NoCall
    /\ result = NoResult

\* DiskPage.on_show: the prefix the partition lists are filtered by
ShowDiskPage ==
    /\ pc = "start"
    /\ wizard.prefix = NONE
    /\ wizard' = [wizard EXCEPT
                    !.prefix = FilterPrefix(IF Truthy(cfg.target_disk) THEN cfg.target_disk
                                            ELSE "")]
    /\ UNCHANGED <<cfg, dry_run, euid, firmwareEfi, liveFiles, mntWritable, config_file, blk, pc, error,
                   loc, log, mounts, swapOn, targetFiles, made, faults, preview, call,
                   result>>

\* run_install, lines 242-248: the names of the partitions it has just created
DeriveNames ==
    /\ pc = "start"
    /\ cfg.erase_disk
    /\ loc.root_part = NONE
    /\ loc' = [loc EXCEPT !.efi_part = ErasePartName(cfg.target_disk, 1),
                          !.root_part = ErasePartName(cfg.target_disk, 2)]
    /\ UNCHANGED <<cfg, dry_run, euid, firmwareEfi, liveFiles, mntWritable, config_file, blk, pc, error,
                   log, mounts, swapOn, targetFiles, made, faults, preview, wizard, call,
                   result>>

NamingNext ==
    \/ ShowDiskPage
    \/ ShowSummary
    \/ DeriveNames

SpecNaming == NamingInit /\ [][NamingNext]_vars

----------------------------------------------------------------------------
(* The software planner on its own: both functions applied, repeatedly, to  *)
(* the selection of one configuration                                       *)

\* the bundle flags of InstallConfig
BundleFlags == {"profile_gamers", "profile_creators", "profile_accountants",
                "profile_developers"}

\* the sub-flags of a bundle
SubFlags(bundle) ==
    CASE bundle = "profile_gamers" ->
            {"gamers_steam", "gamers_lutris", "gamers_wine", "gamers_mangohud",
             "gamers_gamemode"}
      [] bundle = "profile_creators" ->
            {"creators_gimp", "creators_inkscape", "creators_blender", "creators_kdenlive",
             "creators_audacity"}
      [] bundle = "profile_accountants" ->
            {"accountants_libreoffice", "accountants_gnucash"}
      [] bundle = "profile_developers" ->
            {"developers_git", "developers_base_devel", "developers_python",
             "developers_nodejs", "developers_vscode"}

AllSubFlags == UNION { SubFlags(b) : b \in BundleFlags }

\* the sub-flag settings of the model
SubFlagChoices ==
    { {}, AllSubFlags,
      {"gamers_steam", "gamers_mangohud", "developers_nodejs", "developers_vscode"},
      {"gamers_wine", "creators_gimp", "accountants_gnucash", "developers_git"},
      {"gamers_lutris", "gamers_gamemode", "creators_audacity", "creators_blender",
       "accountants_libreoffice", "developers_python", "developers_base_devel"} }

PlannerInputs ==
    { [DefaultInstall EXCEPT !.software = bundles \cup driver \cup subs] :
        bundles \in SUBSET BundleFlags, driver \in {{}, {"driver_nvidia"}},
        subs \in SubFlagChoices }

PlannerInit ==
    /\ cfg \in PlannerInputs
    /\ pc = "plan"
    /\ preview = <<>>
    /\ dry_run = FALSE
    /\ blk = [d \in Devices |-> NoMeta]
    /\ euid = 0
    /\ mntWritable = TRUE
    /\ firmwareEfi = FALSE
    /\ liveFiles = {}
    /\ error = ""
    /\ loc = NoLocals
    /\ log = <<>>
    /\ mounts = {}
    /\ swapOn = {}
    /\ targetFiles = {}
    /\ made = {}
    /\ faults = 0
    /\ wizard = NoWizard
    /\ config_file = <<>>
    /\ call = NoCall
    /\ result = NoResult

\* what the two planner functions return for a configuration
Plan(install) ==
    [ arch |-> arch_packages_for_selection(selection_from_config(install)),
      flatpak |-> flatpak_appids_for_selection(selection_from_config(install)) ]

\* one call of each planner function on the configuration's selection
PlanSoftware ==
    /\ pc = "plan"
    /\ Len(preview) < MaxPlannerCalls
    /\ preview' = Append(preview, Plan(cfg))
    /\ UNCHANGED <<cfg, dry_run, euid, firmwareEfi, liveFiles, mntWritable, config_file, blk, pc, error,
                   loc, log, mounts, swapOn, targetFiles, made, faults, wizard, call,
                   result>>

PlannerNext == PlanSoftware

SpecPlanner == PlannerInit /\ [][PlannerNext]_vars

----------------------------------------------------------------------------
(* AppConfig.load and AppConfig.save: the wizard's pages store what the      *)
(* operator entered and save the configuration; the next start loads it.    *)

\* config.json as the installer may find it: absent, unreadable, edited by
\* hand, or written by an earlier session
ConfigFiles ==
    { <<>>,
      <<[valid |-> FALSE, install |-> [password |-> "leaked"]]>>,
      <<[valid |-> TRUE,
         install |-> [hostname |-> NONE, root_partition |-> NONE, wifi_ssid |-> "cafe",
                      password |-> "leaked", wifi_password |-> "leaked"]]>>,
      <<save(FullManual)>> }

\* main(): AppConfig.load() before the wizard is built
ConfigInit ==
    /\ config_file \in ConfigFiles
    /\ cfg = load(config_file)
    /\ pc = "loaded"
    /\ preview = <<>>
    /\ dry_run = TRUE
    /\ blk = [d \in Devices |-> NoMeta]
    /\ euid = 0
    /\ mntWritable = TRUE
    /\ firmwareEfi = FALSE
    /\ liveFiles = {}
    /\ error = ""
    /\ loc = NoLocals
    /\ log = <<>>
    /\ mounts = {}
    /\ swapOn = {}
    /\ targetFiles = {}
    /\ made = {}
    /\ faults = 0
    /\ wizard = NoWizard
    /\ call = NoCall
    /\ result = NoResult

\* where the wizard is between two handlers
ConfigPositions == {"loaded", "saved", "user", "network"}

ConfigUnchanged ==
    UNCHANGED <<dry_run, euid, firmwareEfi, liveFiles, mntWritable, blk, error, loc, log,
                mounts, swapOn, targetFiles, made, faults, preview, wizard, call, result>>

\* WizardState.set_language: a save of the configuration as it stands
SetLanguage ==
    /\ pc \in ConfigPositions
    /\ config_file' = <<save(cfg)>>
    /\ pc' = "saved"
    /\ UNCHANGED cfg
    /\ ConfigUnchanged

\* UserPage.on_next, after validate accepted a host name, a user name and a
\* non-empty password
UserNext ==
    /\ pc \in ConfigPositions
    /\ \E h \in {"vistula", "box"}, p \in {"secret", "hunter2"} :
          cfg' = [cfg EXCEPT !.hostname = h, !.username = "user", !.password = p]
    /\ config_file' = <<save(cfg')>>
    /\ pc' = "user"
    /\ ConfigUnchanged

\* NetworkPage.on_next
NetworkNext ==
    /\ pc \in ConfigPositions
    /\ \E nm \in BOOLEAN, ssid \in {"", "home"}, w \in {"", "passphrase"} :
          cfg' = [cfg EXCEPT !.enable_networkmanager = nm, !.wifi_ssid = ssid,
                             !.wifi_password = w]
    /\ config_file' = <<save(cfg')>>
    /\ pc' = "network"
    /\ ConfigUnchanged

\* the installer is closed and started again: main() loads the file
Restart ==
    /\ pc \in ConfigPositions
    /\ cfg' = load(config_file)
    /\ pc' = "loaded"
    /\ UNCHANGED config_file
    /\ ConfigUnchanged

ConfigNext == SetLanguage \/ UserNext \/ NetworkNext \/ Restart

SpecConfig == ConfigInit /\ [][ConfigNext]_vars

----------------------------------------------------------------------------
(* The GTK wizard (ui/gtk_wizard.py): the window with its Back and Next      *)
(* buttons, the callbacks queued on the main loop, and the worker threads   *)
(* that the Progress page starts.  `wizard` holds the window's state.       *)

\* InstallerWindow._build_pages: the pages, current_idx counts from 0
Pages ==
    << "welcome", "language", "locale", "network", "disk", "user", "software", "summary",
       "progress", "finish" >>

PageAt(idx) == Pages[idx + 1]

\* the pages whose validate() can refuse what the operator entered
Validating == {"disk", "user", "summary"}

\* a callback queued with GLib.idle_add: of run `run`, or for the page `page`
\* that was current when Next was clicked
Callback(cb, i, page) == [ cb |-> cb, run |-> i, page |-> page ]

\* the values of the configuration that the runs of the model read
Read(install) ==
    [ target_disk |-> install.target_disk, hostname |-> install.hostname,
      password |-> install.password ]

\* ProgressPage.on_show: a new engine on the shared configuration and a worker
\* thread about to call run_install.  at_start is the configuration when
\* run_install was called, used is what the run has read from it so far.
NewRun(install) ==
    [ pos |-> "preflight", at_start |-> Read(install), error |-> "",
      used |-> [target_disk |-> NONE, hostname |-> NONE, password |-> NONE] ]

\* InstallerWindow.set_busy
set_busy(w, busy) ==
    LET count == IF busy THEN w.busy_count + 1
                 ELSE IF w.busy_count > 0 THEN w.busy_count - 1 ELSE 0
        is_busy == count > 0
    IN  [w EXCEPT !.busy_count = count,
                  !.back = ~is_busy /\ w.current_idx > 0,
                  !.next = ~is_busy /\ PageAt(w.current_idx) # "progress"]

\* NetworkPage._scan_wifi: the busy indicator is raised and a worker thread
\* started, which has not queued its ui_update yet
_scan_wifi(w) ==
    [set_busy(w, TRUE) EXCEPT !.scans = Append(@, [of |-> "wifi", pos |-> "started"])]

\* max(0, min(idx, len(self.pages) - 1))
Clamp(idx) == IF idx < 0 THEN 0 ELSE IF idx > Len(Pages) - 1 THEN Len(Pages) - 1 ELSE idx

\* InstallerWindow._go_to with the page's on_show: showing the Progress page
\* starts an installation, showing the Network page a Wi-Fi scan
_go_to(w, idx, install) ==
    LET i == Clamp(idx)
        page == PageAt(i)
        shown == IF page = "network" THEN _scan_wifi([w EXCEPT !.current_idx = i]) ELSE w
    IN  [shown EXCEPT
                  !.current_idx = i,
                  !.runs = IF page = "progress" THEN Append(@, NewRun(install)) ELSE @,
                  !.back = i > 0 /\ page # "progress",
                  !.next = IF page = "finish" THEN @ ELSE page # "progress"]

\* FinishPage.build: the text of the Finish page, chosen when the page is built
FinishPage_build(last_error, dry) ==
    IF Truthy(last_error) THEN "Installation failed:\n" \o last_error
    ELSE IF dry THEN "Dry-run complete. No changes were made."
    ELSE "Installation complete. You can reboot now."

\* InstallerWindow.__init__: the pages are built and the first one is shown.
\* dialogs holds the error texts of the runs that _show_error has shown, idle
\* the callbacks queued on the main loop, runs the worker threads, label the
\* text the Finish page was built with, scans the worker threads of scans and
\* searches that have not queued their ui_update, clicks the number of clicks
\* on "Scan Wi-Fi" and "Search" so far.
WindowShown ==
    [ current_idx |-> 0, busy_count |-> 0, back |-> FALSE, next |-> TRUE,
      closed |-> FALSE, last_error |-> NONE, dialogs |-> {}, idle |-> <<>>,
      runs |-> <<>>, label |-> FinishPage_build(NONE, dry_run),
      scans |-> <<>>, clicks |-> 0 ]

\* run_gui: the configuration main() loaded, no page visited yet
WizardInit ==
    /\ config_file = <<save(BaseErase)>>
    /\ cfg = load(config_file)
    /\ pc = "wizard"
    /\ dry_run = FALSE
    /\ wizard = WindowShown
    /\ euid \in {0, 1000}
    /\ mntWritable = TRUE
    /\ firmwareEfi = FALSE
    /\ liveFiles = FullLive
    /\ blk = [d \in Devices |-> NoMeta]
    /\ preview = <<>>
    /\ error = ""
    /\ loc = NoLocals
    /\ log = <<>>
    /\ mounts = {}
    /\ swapOn = {}
    /\ targetFiles = {}
    /\ made = {}
    /\ faults = 0
    /\ call = NoCall
    /\ result = NoResult

WizardUnchanged ==
    UNCHANGED <<dry_run, euid, firmwareEfi, liveFiles, mntWritable, blk, pc, error, loc, log,
                mounts, swapOn, targetFiles, made, faults, preview, call, result>>

\* the window is open and the main loop has c as its next callback
NextCallback(c) ==
    /\ pc = "wizard" /\ ~wizard.closed
    /\ wizard.idle # <<>> /\ Head(wizard.idle).cb = c

\* showing page idx starts no installation beyond the bound
WithinBound(idx) == PageAt(Clamp(idx)) = "progress" => Len(wizard.runs) < MaxInstalls

\* LanguagePage.on_changed: the operator picks a language on the Language
\* page; set_language saves the configuration and rebuild_ui builds every page
\* anew and shows the current one again.  The operator does so when no
\* navigation is under way.
on_changed ==
    /\ pc = "wizard" /\ ~wizard.closed
    /\ PageAt(wizard.current_idx) = "language"
    /\ wizard.busy_count = 0
    /\ config_file' = <<save(cfg)>>
    /\ wizard' = _go_to([wizard EXCEPT !.label = FinishPage_build(wizard.last_error, dry_run)],
                        wizard.current_idx, cfg)
    /\ UNCHANGED cfg
    /\ WizardUnchanged

\* InstallerWindow.on_back: a click on the Back button
on_back ==
    /\ pc = "wizard" /\ ~wizard.closed
    /\ wizard.back
    /\ wizard' = [set_busy(wizard, TRUE) EXCEPT
                     !.idle = Append(@, Callback("do_nav", 0, wizard.current_idx))]
    /\ UNCHANGED <<cfg, config_file>>
    /\ WizardUnchanged

\* InstallerWindow.on_next: a click on the Next button, Close on the last page
on_next ==
    /\ pc = "wizard" /\ ~wizard.closed
    /\ wizard.next
    /\ wizard' = IF PageAt(wizard.current_idx) = "finish"
                 THEN [wizard EXCEPT !.closed = TRUE]
                 ELSE [set_busy(wizard, TRUE) EXCEPT
                          !.idle = Append(@, Callback("do_next", 0, wizard.current_idx))]
    /\ UNCHANGED <<cfg, config_file>>
    /\ WizardUnchanged

\* on_back.do_nav
do_nav ==
    /\ NextCallback("do_nav")
    /\ WithinBound(wizard.current_idx - 1)
    /\ wizard' = set_busy(_go_to([wizard EXCEPT !.idle = Tail(@)],
                                 wizard.current_idx - 1, cfg), FALSE)
    /\ UNCHANGED <<cfg, config_file>>
    /\ WizardUnchanged

\* what page.on_next stores in the configuration; the User page stores the
\* host name and the password the operator typed
Entered(page, install) ==
    IF page = "user"
    THEN { [install EXCEPT !.hostname = h, !.username = "user", !.password = "secret"] :
             h \in {"vistula", "box"} }
    ELSE {install}

\* the pages whose on_next saves the configuration
Saving == {"locale", "network", "disk", "user", "software"}

\* on_next.do_next: validate, page.on_next, the next page.  When validate
\* refuses, its message is shown in a modal dialog, which the operator
\* dismisses before the callback ends, and the page stays.
do_next ==
    /\ NextCallback("do_next")
    /\ LET page == PageAt(Head(wizard.idle).page)
           w == [wizard EXCEPT !.idle = Tail(@)]
       IN  \E ok \in (IF page \in Validating THEN BOOLEAN ELSE {TRUE}) :
              IF ~ok
              THEN /\ wizard' = set_busy(w, FALSE)
                   /\ UNCHANGED <<cfg, config_file>>
              ELSE /\ WithinBound(wizard.current_idx + 1)
                   /\ cfg' \in Entered(page, cfg)
                   /\ config_file' = IF page \in Saving THEN <<save(cfg')>> ELSE config_file
                   /\ wizard' = set_busy(_go_to(w, wizard.current_idx + 1, cfg'), FALSE)
    /\ WizardUnchanged

\* worker: run_install raised e; the error is recorded and two callbacks are
\* queued, the worker is still inside its except block
Raised(w, i, e) ==
    [w EXCEPT !.runs[i].pos = "except", !.runs[i].error = e,
              !.last_error = e,
              !.idle = @ \o <<Callback("show_error", i, 0), Callback("finish", i, 0)>>]

\* the worker of run i at position pos
Worker(i, pos) ==
    /\ pc = "wizard" /\ ~wizard.closed
    /\ i \in 1..Len(wizard.runs)
    /\ wizard.runs[i].pos = pos

\* run_install up to step 75: validate_ready, the privilege check, the disk is
\* read from the configuration, then the commands on the disk and the target,
\* one of which may fail in a real run
RunDisk(i) ==
    /\ Worker(i, "preflight")
    /\ \E failed \in (IF dry_run THEN {FALSE} ELSE BOOLEAN) :
          wizard' = IF PreflightError # ""
                    THEN Raised([wizard EXCEPT !.runs[i].at_start = Read(cfg)], i, PreflightError)
                    ELSE IF failed
                    THEN Raised([wizard EXCEPT !.runs[i].at_start = Read(cfg),
                                               !.runs[i].used.target_disk = cfg.target_disk],
                                i, CommandFailed)
                    ELSE [wizard EXCEPT !.runs[i].pos = "system",
                                        !.runs[i].at_start = Read(cfg),
                                        !.runs[i].used.target_disk = cfg.target_disk]
    /\ UNCHANGED <<cfg, config_file>>
    /\ WizardUnchanged

\* run_install, steps 80 to 100: the host name, the user and the password are
\* read from the configuration; run_install returns and the worker queues the
\* next page
RunSystem(i) ==
    /\ Worker(i, "system")
    /\ wizard' = [wizard EXCEPT !.runs[i].pos = "returned",
                                !.runs[i].used.hostname = cfg.hostname,
                                !.runs[i].used.password = cfg.password,
                                !.idle = Append(@, Callback("advance", i, 0))]
    /\ UNCHANGED <<cfg, config_file>>
    /\ WizardUnchanged

\* worker: the except block ends, which unbinds its variable e
RunExit(i) ==
    /\ Worker(i, "except")
    /\ wizard' = [wizard EXCEPT !.runs[i].pos = "raised"]
    /\ UNCHANGED <<cfg, config_file>>
    /\ WizardUnchanged

\* worker's callback after run_install returned: _go_to(current_idx + 1)
advance ==
    /\ NextCallback("advance")
    /\ WithinBound(wizard.current_idx + 1)
    /\ wizard' = _go_to([wizard EXCEPT !.idle = Tail(@)], wizard.current_idx + 1, cfg)
    /\ UNCHANGED <<cfg, config_file>>
    /\ WizardUnchanged

\* worker's callback lambda: _show_error(str(e)).  The lambda reads e when the
\* main loop calls it: inside the except block e is the exception, after the
\* block e is unbound and the call raises NameError, which the main loop
\* reports on stderr; no dialog is shown then.
show_error ==
    /\ NextCallback("show_error")
    /\ LET r == wizard.runs[Head(wizard.idle).run] IN
       wizard' = [wizard EXCEPT !.idle = Tail(@),
                                !.dialogs = IF r.pos = "except"
                                            THEN @ \cup {r.error} ELSE @]
    /\ UNCHANGED <<cfg, config_file>>
    /\ WizardUnchanged

\* worker's callback after run_install raised: _go_to(len(pages) - 1)
finish ==
    /\ NextCallback("finish")
    /\ wizard' = _go_to([wizard EXCEPT !.idle = Tail(@)], Len(Pages) - 1, cfg)
    /\ UNCHANGED <<cfg, config_file>>
    /\ WizardUnchanged

\* NetworkPage.on_scan_clicked: a click on "Scan Wi-Fi"; the button is not
\* part of the navigation and stays sensitive while the window is busy
on_scan_clicked ==
    /\ pc = "wizard" /\ ~wizard.closed
    /\ PageAt(wizard.current_idx) = "network"
    /\ wizard.clicks < MaxScans
    /\ wizard' = [_scan_wifi(wizard) EXCEPT !.clicks = @ + 1]
    /\ UNCHANGED <<cfg, config_file>>
    /\ WizardUnchanged

\* SoftwarePage.on_flatpak_search with a query typed: a click on "Search"
on_flatpak_search ==
    /\ pc = "wizard" /\ ~wizard.closed
    /\ PageAt(wizard.current_idx) = "software"
    /\ wizard.clicks < MaxScans
    /\ wizard' = [set_busy(wizard, TRUE) EXCEPT !.scans = Append(@, [of |-> "flatpak", pos |-> "started"]),
                                                !.clicks = @ + 1]
    /\ UNCHANGED <<cfg, config_file>>
    /\ WizardUnchanged

\* list_wifi_networks and search_flatpak: executor.run with check false and
\* allow_in_dry_run true, an empty list when the return code is not 0.
\* subprocess.run raises FileNotFoundError when the program is not installed
\* (started false); neither run nor these functions catch it.
list_networks(dry, of, started, rc) ==
    LET program == IF of = "wifi" THEN <<"nmcli", "dev", "wifi", "list">>
                   ELSE <<"flatpak", "search">>
        res == run(dry, program, FALSE, TRUE, rc, IF rc = 0 THEN "net" ELSE "")
    IN
    IF ~started THEN [ raised |-> TRUE, found |-> <<>> ]
    ELSE [ raised |-> FALSE,
           found |-> IF res.returncode # 0 THEN <<>> ELSE <<res.stdout>> ]

\* the worker of a scan or search: it calls list_wifi_networks / search_flatpak
\* and queues ui_update with the result; an exception of the call ends the
\* thread before GLib.idle_add
scan_worker(i) ==
    /\ pc = "wizard" /\ ~wizard.closed
    /\ i \in 1..Len(wizard.scans)
    /\ wizard.scans[i].pos = "started"
    /\ \E started \in BOOLEAN, rc \in 0..MaxExitStatus :
          LET r == list_networks(dry_run, wizard.scans[i].of, started, rc) IN
          wizard' = IF r.raised
                    THEN [wizard EXCEPT !.scans[i].pos = "died"]
                    ELSE [wizard EXCEPT !.scans = [ j \in 1..(Len(@) - 1) |->
                                                      IF j < i THEN @[j] ELSE @[j + 1] ],
                                        !.idle = Append(@, Callback("ui_update", 0, 0))]
    /\ UNCHANGED <<cfg, config_file>>
    /\ WizardUnchanged

\* the worker's ui_update: the list is filled, finally set_busy(False)
ui_update ==
    /\ NextCallback("ui_update")
    /\ wizard' = set_busy([wizard EXCEPT !.idle = Tail(@)], FALSE)
    /\ UNCHANGED <<cfg, config_file>>
    /\ WizardUnchanged

WizardNext ==
    \/ on_changed
    \/ on_scan_clicked
    \/ on_flatpak_search
    \/ ui_update
    \/ \E i \in 1..(MaxScans + MaxInstalls + 1) : scan_worker(i)
    \/ on_back
    \/ on_next
    \/ do_nav
    \/ do_next
    \/ advance
    \/ show_error
    \/ finish
    \/ \E i \in 1..MaxInstalls :
          RunDisk(i) \/ RunSystem(i) \/ RunExit(i)

SpecWizard == WizardInit /\ [][WizardNext]_vars

\* the main loop runs a queued callback when it is idle and the scheduler
\* runs every thread that can run; the operator's clicks are under no
\* obligation
FairWizard ==
    /\ SpecWizard
    /\ WF_vars(do_nav \/ do_next \/ advance \/ show_error \/ finish \/ ui_update)
    /\ WF_vars(\/ \E i \in 1..MaxInstalls : RunDisk(i) \/ RunSystem(i) \/ RunExit(i)
               \/ \E i \in 1..(MaxScans + MaxInstalls + 1) : scan_worker(i))

----------------------------------------------------------------------------
(* Properties *)

Events(l) == SelectSeq(l, LAMBDA e : e.kind = "step")

Commands(l) == SelectSeq(l, LAMBDA e : e.kind = "cmd")

Percentages(l) == [i \in 1..Len(Events(l)) |-> Events(l)[i].pct]

Finished == pc \in {"done", "raised"}

\* C1: in dry-run mode a call with allow_in_dry_run false starts no process and
\* returns the synthetic success (return code 0, both streams empty), whatever
\* the process would have done; a call with allow_in_dry_run true starts the
\* real process even though the executor is in dry-run mode.
C1_DryRunSimulatesUnlessAllowed ==
    (dry_run /\ result # NoResult) =>
        IF call.allow_in_dry_run
        THEN result.executed /\ result.returncode = call.rc
        ELSE /\ ~result.executed
             /\ result.returned /\ ~result.raised
             /\ result.returncode = 0 /\ result.stdout = "" /\ result.stderr = ""

\* both halves of C1 happen: a failing wipefs is simulated, lsblk is executed
C1_Witness ==
    /\ dry_run /\ result # NoResult
    /\ \/ (~call.allow_in_dry_run /\ call.check /\ call.rc # 0 /\ call.args[1] = "wipefs")
       \/ (call.allow_in_dry_run /\ call.args[1] = "lsblk" /\ result.executed)

\* the scenario of C2: erase /dev/sda, UEFI host, no swap, no home, no optional
\* software, dry-run, started by root
C2_Scenario ==
    /\ dry_run /\ euid = 0 /\ firmwareEfi
    /\ cfg.erase_disk /\ cfg.target_disk = "/dev/sda" /\ cfg.password # ""
    /\ cfg.home_partition = "" /\ cfg.swap_partition = ""
    /\ cfg.software = {} /\ cfg.flatpak_apps = <<>>

\* C2: the end-to-end dry run of the scenario reports exactly the percentages
\* 5,15,25,45,60,75,80,82,84,85,88,90,95,100 and returns without an error, its
\* last event being (100, "Done").
C2_EraseDryRunReportsAllSteps ==
    (C2_Scenario /\ Finished) =>
        /\ error = ""
        /\ Percentages(log) = <<5, 15, 25, 45, 60, 75, 80, 82, 84, 85, 88, 90, 95, 100>>
        /\ log[Len(log)] = Ev(100, "Done")

\* C3: a dry run starts no process but the blkid metadata queries: every other
\* command (wipefs, parted, mkfs.*, mkswap, mount, swapon, rsync, chroot ...,
\* swapoff, umount) is logged and not executed.
C3_DryRunExecutesOnlyBlkid ==
    dry_run =>
        \A i \in 1..Len(log) :
            (log[i].kind = "cmd" /\ log[i].executed) => log[i].argv[1] = "blkid"

\* a complete dry run that logged the destructive commands and executed blkid
C3_Witness ==
    /\ dry_run /\ pc = "done"
    /\ \E i \in 1..Len(log) : log[i].kind = "cmd" /\ log[i].argv[1] = "wipefs"
                                /\ ~log[i].executed
    /\ \E i \in 1..Len(log) : log[i].kind = "cmd" /\ log[i].argv[1] = "blkid"
                                /\ log[i].executed
    /\ \E i \in 1..Len(log) : log[i].kind = "cmd" /\ log[i].argv[1] = "umount"

\* C4: the command lines a dry run logs are the command lines the real run of
\* the same configuration in the same environment executes when every command
\* succeeds: none is present in one and absent in the other.
C4_PreviewMatchesRealRun ==
    (preview # <<>> /\ ~dry_run /\ pc = "done"
        /\ \A i \in 1..Len(log) : log[i].kind = "cmd" /\ log[i].argv[1] # "blkid"
                                    => log[i].rc = 0)
    => preview[1] = CommandLines(log)

ValueErrors ==
    { "ValueError: No target disk selected",
      "ValueError: No root partition selected",
      "ValueError: EFI partition is required for UEFI systems",
      "ValueError: Password is required" }

PermissionErrors == {NotRoot, Denied}

\* a configuration that fails validation: no target disk, manual mode without a
\* root partition, manual mode on UEFI without an EFI partition, no password
InvalidConfig ==
    \/ cfg.target_disk \in {NONE, ""}
    \/ (~cfg.erase_disk /\ cfg.root_partition = "")
    \/ (~cfg.erase_disk /\ firmwareEfi /\ cfg.efi_partition = "")
    \/ cfg.password = ""

\* C5: run_install on a configuration that fails validation raises before any
\* command is run, any progress event is emitted or anything is changed.
C5_InvalidConfigRaisesFirst ==
    (InvalidConfig /\ pc # "start") =>
        /\ pc = "raised" /\ error \in ValueErrors
        /\ log = <<>> /\ mounts = {} /\ swapOn = {} /\ made = {} /\ targetFiles = {}

\* a real run by root refused for its empty password
C5_Witness ==
    /\ ~dry_run /\ euid = 0 /\ pc = "raised"
    /\ cfg.target_disk = "/dev/sda" /\ cfg.erase_disk /\ cfg.password = ""
    /\ error = "ValueError: Password is required"

\* C6: run_install (on a configuration that passes validation) fails with
\* PermissionError exactly when the process is not superuser and the executor is
\* not in dry-run mode, and then no command is run and no progress event is
\* emitted; in dry-run mode a non-superuser run proceeds.
C6_PermissionErrorIffRealNonRoot ==
    (Finished /\ ~InvalidConfig) =>
        /\ (error \in PermissionErrors) <=> (euid # 0 /\ ~dry_run)
        /\ (euid # 0 /\ ~dry_run) => log = <<>>
        /\ (euid # 0 /\ dry_run) => log # <<>>

\* C7: validate_ready fails when target_disk is unset, when manual mode has no
\* root partition, when manual mode on UEFI has no EFI partition, and when the
\* password is empty; it succeeds for every other configuration, and in erase
\* mode the root and EFI partition fields are not required.
C7_ValidateReady ==
    pc # "start" =>
        ( error \notin ValueErrors
          <=> /\ cfg.target_disk \notin {NONE, ""}
              /\ cfg.password # ""
              /\ cfg.erase_disk \/ cfg.root_partition # ""
              /\ cfg.erase_disk \/ ~firmwareEfi \/ cfg.efi_partition # "" )

\* validation passed for a fully populated manual configuration on UEFI, and
\* for an erase configuration on UEFI that names no partition
C7_Witness ==
    /\ firmwareEfi /\ pc \notin {"start", "raised"}
    /\ \/ (~cfg.erase_disk /\ cfg.root_partition # "" /\ cfg.efi_partition # "")
       \/ (cfg.erase_disk /\ cfg.root_partition = "" /\ cfg.efi_partition = "")

\* C8: a check=True command that exits non-zero in a real run is the last thing
\* run_install does: it raises there, so no later command is executed and no
\* later progress event (in particular not (100, "Done")) is emitted.
C8_FailingCheckedCommandStopsRun ==
    \A i \in 1..Len(log) :
        (log[i].kind = "cmd" /\ log[i].check /\ log[i].executed /\ log[i].rc # 0)
        => (i = Len(log) /\ pc = "raised" /\ error = CommandFailed)

\* the copy failed in a real run: the run stopped at step 45
C8_Witness ==
    /\ ~dry_run /\ pc = "raised" /\ error = CommandFailed
    /\ log[Len(log)].argv[1] = "rsync" /\ log[Len(log)].rc # 0
    /\ Percentages(log) = <<5, 15, 25, 45>>

\* C9: no rollback.  When run_install has raised, the engine has issued no
\* umount and no swapoff, and every mount and swap activation it made before
\* the failure is still in effect.
C9_NoRollback ==
    pc = "raised" =>
        \A i \in 1..Len(log) :
            log[i].kind = "cmd" =>
                /\ log[i].argv[1] \notin {"umount", "swapoff"}
                /\ (log[i].argv[1] = "mount" /\ log[i].executed /\ log[i].rc = 0)
                       => log[i].argv[Len(log[i].argv)] \in mounts
                /\ (log[i].argv[1] = "swapon" /\ log[i].executed /\ log[i].rc = 0)
                       => log[i].argv[2] \in swapOn

\* a run failed after the root, home, EFI and bind mounts and the swap activation
C9_Witness ==
    /\ pc = "raised" /\ error = CommandFailed
    /\ {TARGET, TARGET \o "/home", TARGET \o "/boot/efi", TARGET \o "/dev"} \subseteq mounts
    /\ swapOn = {"/dev/sda4"}

\* C10: non-zero exits of tolerated (check=False) commands never abort
\* run_install: with every check=True command succeeding, the run goes through
\* all remaining steps and ends with (100, "Done") and no error.
C10_ToleratedFailuresNeverAbort ==
    (~dry_run /\ Finished /\ faults > 0
        /\ \A i \in 1..Len(log) : (log[i].kind = "cmd" /\ log[i].check) => log[i].rc = 0)
    => (pc = "done" /\ error = "" /\ log[Len(log)] = Ev(100, "Done"))

\* how many times the command argv was handed to the executor
Issued(argv) == Len(SelectSeq(log, LAMBDA e : e.kind = "cmd" /\ e.argv = argv))

\* the formatting commands the manual flow owes to the configuration
ManualFormats ==
    (IF cfg.format_root THEN {<<"mkfs.ext4", "-F", cfg.root_partition>>} ELSE {})
    \cup (IF cfg.efi_partition # "" /\ cfg.format_efi
          THEN {<<"mkfs.vfat", "-F", "32", cfg.efi_partition>>} ELSE {})
    \cup (IF cfg.home_partition # "" /\ cfg.format_home
          THEN {<<"mkfs.ext4", "-F", cfg.home_partition>>} ELSE {})
    \cup (IF cfg.swap_partition # "" /\ cfg.format_swap
          THEN {<<"mkswap", cfg.swap_partition>>} ELSE {})

FormatTools == {"mkfs.ext4", "mkfs.vfat", "mkswap"}

\* C11: in manual mode run_install formats exactly the configured partitions
\* whose format flag is set (mkfs.ext4 on root iff format_root, mkfs.vfat on EFI
\* iff EFI is set and format_efi, mkfs.ext4 on home iff home is set and
\* format_home, mkswap on swap iff swap is set and format_swap), each once; it
\* never issues wipefs or parted, and formats nothing whose flag is unset.
C11_ManualFormatsExactlyFlagged ==
    ~cfg.erase_disk =>
        /\ \A i \in 1..Len(log) :
              log[i].kind = "cmd" =>
                  /\ log[i].argv[1] \notin {"wipefs", "parted"}
                  /\ log[i].argv[1] \in FormatTools => log[i].argv \in ManualFormats
        /\ \A argv \in ManualFormats : Issued(argv) <= 1
        /\ pc \notin {"start", "format_manual", "raised"} =>
              \A argv \in ManualFormats : Issued(argv) = 1

\* a manual run went past formatting with root and swap flagged and formatted,
\* EFI and home configured and left alone
C11_Witness ==
    /\ ~cfg.erase_disk /\ pc = "copy"
    /\ cfg.format_root /\ cfg.format_swap /\ ~cfg.format_efi /\ ~cfg.format_home
    /\ cfg.efi_partition # "" /\ cfg.home_partition # "" /\ cfg.swap_partition # ""
    /\ Issued(<<"mkfs.ext4", "-F", "/dev/sda2">>) = 1
    /\ Issued(<<"mkswap", "/dev/sda4">>) = 1

\* the percentages of the erase flow and of the manual flow
EraseSteps == <<5, 15, 25, 45, 60, 75, 80, 82, 84, 85, 88, 90, 95, 100>>

ManualSteps == <<10, 25, 45, 60, 75, 80, 82, 84, 85, 88, 90, 95, 100>>

IsPrefix(s, t) == Len(s) <= Len(t) /\ s = SubSeq(t, 1, Len(s))

\* C12: within one run_install call the reported percentages never decrease,
\* each lies in 0..100, and no step's event is reported twice: the events are a
\* prefix of 5,15,25,...,100 in erase mode and of 10,25,...,100 in manual mode,
\* on complete runs and on runs cut short by a failure.
C12_ProgressMonotonic ==
    LET evs == Events(log)
        pcts == [i \in 1..Len(evs) |-> evs[i].pct]
    IN
    /\ \A i \in 1..Len(pcts) : pcts[i] \in 0..100
    /\ \A i, j \in 1..Len(pcts) : i < j => pcts[i] <= pcts[j]
    /\ \A i, j \in 1..Len(pcts) : i # j => evs[i] # evs[j]
    /\ IsPrefix(pcts, IF cfg.erase_disk THEN EraseSteps ELSE ManualSteps)

\* a complete manual run, and an erase run cut short at the copy
C12_Witness ==
    \/ (~cfg.erase_disk /\ pc = "done" /\ Percentages(log) = ManualSteps)
    \/ (cfg.erase_disk /\ pc = "raised" /\ Percentages(log) = <<5, 15, 25, 45>>)

\* the percentage of the step a command belongs to
StepOfCommand(argv) ==
    LET c == argv[1] IN
    CASE c \in {"wipefs", "parted"} -> {5}
      [] c \in FormatTools -> {10, 15}
      [] c \in {"mkdir", "swapon"} -> {25}
      [] c = "mount" -> IF argv[2] = "--bind" THEN {75} ELSE {25}
      [] c = "rsync" -> {45}
      [] c = "blkid" -> {60}
      [] c \in {"swapoff", "umount"} -> {95}
      [] c = "chroot" ->
            ( CASE argv[3] \in {"useradd", "chpasswd"} -> {85}
                [] argv[3] \in {"pacman", "flatpak"} -> {88}
                [] argv[3] = "grub-install" -> {90}
                [] argv[3] = "bash" /\ argv[5] = LocaleOps(cfg, FullLive)[6].argv[5] -> {82}
                [] argv[3] = "bash" /\ argv[5] = BootloaderOps("", TRUE)[3].argv[5] -> {90}
                [] OTHER -> {84} )
      [] OTHER -> {}

\* the progress event in force when log[i] was appended
CurrentStep(i) == Events(SubSeq(log, 1, i))

\* C13: every step reports its progress event before any command of that step
\* is handed to the executor; (100, "Done") is reported after the final umount
\* and is the last event of a successful run; it is reported if and only if
\* run_install returns without an error.
C13_StepBeforeCommands ==
    /\ \A i \in 1..Len(log) :
          log[i].kind = "cmd" =>
              /\ CurrentStep(i) # <<>>
              /\ CurrentStep(i)[Len(CurrentStep(i))].pct \in StepOfCommand(log[i].argv)
    /\ (\E i \in 1..Len(log) : log[i] = Ev(100, "Done")) <=> (pc = "done" /\ error = "")
    /\ pc = "done" =>
          /\ log[Len(log)] = Ev(100, "Done")
          /\ \E i \in 1..(Len(log) - 1) : log[i].kind = "cmd" /\ log[i].argv[1] = "umount"
          /\ \A i \in 1..Len(log) : log[i].kind = "cmd" => i < Len(log)

\* a real run that returned: umount was executed, then (100, "Done") reported
C13_Witness ==
    /\ ~dry_run /\ pc = "done" /\ error = ""
    /\ log[Len(log)] = Ev(100, "Done")
    /\ log[Len(log) - 1].kind = "cmd" /\ log[Len(log) - 1].argv[1] = "umount"
    /\ log[Len(log) - 1].executed

\* C14: with check=true run raises whenever the executed command's return code
\* is non-zero; with check=false it never raises for a non-zero return code and
\* returns the result carrying that return code and both captured streams; a
\* simulated (dry-run) call always succeeds, so check never fires.
C14_CheckSemantics ==
    result # NoResult =>
        /\ result.raised # result.returned
        /\ result.executed =>
              /\ result.raised <=> (call.check /\ call.rc # 0)
              /\ result.returned =>
                    /\ result.returncode = call.rc
                    /\ result.stdout = "output"
                    /\ result.stderr = (IF call.rc = 0 THEN "" ELSE "error")
        /\ ~result.executed => (result.returned /\ result.returncode = 0)

\* a checked call that failed and raised, an unchecked one that failed and
\* returned, and a simulated checked call of a command that would have failed
C14_Witness ==
    /\ result # NoResult /\ call.rc # 0
    /\ \/ (call.check /\ result.executed /\ result.raised)
       \/ (~call.check /\ result.executed /\ result.returned /\ result.returncode = call.rc)
       \/ (call.check /\ ~result.executed /\ result.returned)

FstabPath == TARGET \o "/etc/fstab"

\* C15: the mount table the Summary page previews and the mount table
\* run_install writes to the target's /etc/fstab (or, in dry-run, logs as the
\* content it would write) are identical, in manual mode and in erase mode,
\* where the preview is computed before the disk is repartitioned and formatted.
C15_FstabPreviewMatchesWritten ==
    \A i \in 1..Len(log) :
        (log[i].kind = "fs" /\ log[i].argv = <<FstabPath>>) => log[i].input = wizard.fstab

FstabLine(ref, where, fstype, rest) == ref \o " " \o where \o " " \o fstype \o " " \o rest \o "\n"

\* <fstype-or-fallback>: the TYPE blkid answers, the fallback when it answers none
TypeOr(dev, fallback) == IF blk[dev].type # "" THEN blk[dev].type ELSE fallback

\* C17: build_fstab_content returns one line per provided partition, in the
\* order root, EFI, home, swap: '<ref> / <fstype-or-ext4> defaults 0 1',
\* '<ref> /boot/efi <fstype-or-vfat> umask=0077 0 1',
\* '<ref> /home <fstype-or-ext4> defaults 0 2', '<ref> none swap sw 0 0', and no
\* line for an absent partition; with PARTUUID=ABCD for /dev/sda2 and nothing
\* for /dev/sda1 it returns 'PARTUUID=ABCD / ext4 defaults 0 1' then
\* '/dev/sda1 /boot/efi vfat umask=0077 0 1'.
C17_FstabLines ==
    pc = "fstab" =>
        \A i \in 1..Len(preview) :
            /\ preview[i] =
                  FstabLine(devref(blk, cfg.root_partition), "/",
                            TypeOr(cfg.root_partition, "ext4"), "defaults 0 1")
                  \o (IF cfg.efi_partition = "" THEN ""
                      ELSE FstabLine(devref(blk, cfg.efi_partition), "/boot/efi",
                                     TypeOr(cfg.efi_partition, "vfat"), "umask=0077 0 1"))
                  \o (IF cfg.home_partition = "" THEN ""
                      ELSE FstabLine(devref(blk, cfg.home_partition), "/home",
                                     TypeOr(cfg.home_partition, "ext4"), "defaults 0 2"))
                  \o (IF cfg.swap_partition = "" THEN ""
                      ELSE FstabLine(devref(blk, cfg.swap_partition), "none", "swap", "sw 0 0"))
            /\ ( /\ cfg.efi_partition = "/dev/sda1" /\ cfg.home_partition = ""
                 /\ cfg.swap_partition = ""
                 /\ blk["/dev/sda2"] = [partuuid |-> "ABCD", uuid |-> "", type |-> ""]
                 /\ blk["/dev/sda1"] = NoMeta )
               => preview[i] = "PARTUUID=ABCD / ext4 defaults 0 1\n"
                               \o "/dev/sda1 /boot/efi vfat umask=0077 0 1\n"

\* the example of the specification, and a table of all four lines
C17_Witness ==
    /\ pc = "fstab" /\ Len(preview) > 0
    /\ \/ preview[1] = "PARTUUID=ABCD / ext4 defaults 0 1\n"
                       \o "/dev/sda1 /boot/efi vfat umask=0077 0 1\n"
       \/ preview[1] = "PARTUUID=PU-old / ext4 defaults 0 1\n"
                       \o "UUID=U-1 /boot/efi xfs umask=0077 0 1\n"
                       \o "/dev/sda3 /home ext4 defaults 0 2\n"
                       \o "PARTUUID=ABCD none swap sw 0 0\n"

\* <disk>N, or <disk>pN when the disk path contains "nvme" or "mmcblk"
NameByRule(disk, n) ==
    IF \E sub \in {<<"n", "v", "m", "e">>, <<"m", "m", "c", "b", "l", "k">>} :
          Contains(Spell(disk), sub)
    THEN disk \o "p" \o Digit(n)
    ELSE disk \o Digit(n)

\* C18: for every disk path and partition index the derived partition name is
\* <disk>N, or <disk>pN when the path contains "nvme" or "mmcblk"; the engine
\* after erase-and-partition (EFI = 1, ROOT = 2), the Summary page's fstab
\* preview and the Disk page's partition filter all apply this rule, so the
\* three agree on the names.
C18_PartitionNaming ==
    LET disk == cfg.target_disk IN
    (pc = "start" /\ cfg.erase_disk /\ Truthy(disk) /\ \A d \in DOMAIN blk : blk[d] = NoMeta) =>
        /\ \A n \in 1..MaxPartIndex : _disk_prefix(disk) \o Digit(n) = NameByRule(disk, n)
        /\ loc.root_part # NONE =>
              (loc.efi_part = NameByRule(disk, 1) /\ loc.root_part = NameByRule(disk, 2))
        /\ wizard.fstab # NONE =>
              wizard.fstab = NameByRule(disk, 2) \o " / ext4 defaults 0 1\n"
                             \o NameByRule(disk, 1) \o " /boot/efi vfat umask=0077 0 1\n"
        /\ wizard.prefix # NONE =>
              \A n \in 1..MaxPartIndex : wizard.prefix \o Digit(n) = NameByRule(disk, n)

\* engine, preview and filter have all named the partitions of an NVMe disk,
\* or of a disk whose name ends in a digit without being NVMe or MMC
C18_Witness ==
    /\ pc = "start" /\ wizard.fstab # NONE
    /\ \/ ( /\ cfg.target_disk = "/dev/nvme1n2" /\ wizard.prefix = "/dev/nvme1n2p"
            /\ loc.efi_part = "/dev/nvme1n2p1" /\ loc.root_part = "/dev/nvme1n2p2" )
       \/ ( /\ cfg.target_disk = "/dev/loop0" /\ wizard.prefix = "/dev/loop0"
            /\ loc.efi_part = "/dev/loop01" /\ loc.root_part = "/dev/loop02" )

\* every package and every app identifier, at the place of its first contribution
ArchOrder ==
    <<"nvidia", "nvidia-utils", "lib32-nvidia-utils", "wine", "winetricks", "mangohud",
      "gamemode", "git", "base-devel", "python", "nodejs", "npm">>

FlatpakOrder ==
    <<"com.valvesoftware.Steam", "net.lutris.Lutris", "org.gimp.GIMP",
      "org.inkscape.Inkscape", "org.blender.Blender", "org.kde.kdenlive",
      "org.audacityteam.Audacity", "org.libreoffice.LibreOffice", "org.gnucash.GnuCash",
      "com.visualstudio.code">>

\* list is what remains of order when some of its elements are left out
KeepsOrder(list, order) ==
    list = SelectSeq(order, LAMBDA x : \E i \in 1..Len(list) : list[i] = x)

NoDuplicates(list) == \A i, j \in 1..Len(list) : i # j => list[i] # list[j]

UnsetBundles == BundleFlags \ cfg.software

\* C20: no flag contributes unless its parent bundle flag is set: when a
\* bundle flag is false, both results are the same whatever that bundle's
\* sub-flags are (each alone set or cleared, all set, all cleared).
C20_SubFlagsNeedBundle ==
    pc = "plan" =>
        \A i \in 1..Len(preview) :
            \A b \in UnsetBundles :
                /\ \A f \in SubFlags(b) :
                      /\ preview[i] = Plan([cfg EXCEPT !.software = @ \cup {f}])
                      /\ preview[i] = Plan([cfg EXCEPT !.software = @ \ {f}])
                /\ preview[i] = Plan([cfg EXCEPT !.software = @ \cup SubFlags(b)])
                /\ preview[i] = Plan([cfg EXCEPT !.software = @ \ SubFlags(b)])

\* gamers is off with Steam and MangoHud flagged, developers is on with
\* Node.js and VS Code flagged: only the developers' flags contribute
C20_Witness ==
    /\ pc = "plan" /\ Len(preview) > 0
    /\ "profile_gamers" \notin cfg.software
    /\ {"gamers_steam", "gamers_mangohud", "profile_developers"} \subseteq cfg.software
    /\ preview[1].arch = <<"nodejs", "npm">>
    /\ preview[1].flatpak = <<"com.visualstudio.code">>

\* the app identifiers of the `flatpak install` commands of a log, in order
FlatpakInstalls(l) ==
    LET cmds == SelectSeq(l, LAMBDA e : e.kind = "cmd" /\ Len(e.argv) = 7
                                          /\ e.argv[3] = "flatpak" /\ e.argv[4] = "install")
    IN  [i \in 1..Len(cmds) |-> cmds[i].argv[7]]

\* the resolved plan: the explicit flatpak_apps, then the planner's identifiers,
\* each kept at its first occurrence
ResolvedApps ==
    LET all == cfg.flatpak_apps \o flatpak_appids_for_selection(selection_from_config(cfg))
    IN  SelectSeq([i \in 1..Len(all) |-> IF \E j \in 1..(i - 1) : all[j] = all[i]
                                         THEN "" ELSE all[i]],
                  LAMBDA a : a # "")

\* the software step is the last step the run reported
AtSoftwareStep ==
    Events(log) # <<>> /\ Events(log)[Len(Events(log))].pct = 88

\* C21: in the software step, when the flatpak tool exists in the target, every
\* app identifier of the resolved plan gets exactly one install command, in plan
\* order, whether or not earlier installs failed and whether or not any arch
\* package was selected; the step never raises.
C21_EveryPlannedAppInstalled ==
    (AtSoftwareStep /\ pc \in {"bootloader", "raised"}) =>
        /\ pc # "raised"
        /\ "usr/bin/flatpak" \in targetFiles => FlatpakInstalls(log) = ResolvedApps

\* the connection profile of an SSID
ProfilePath(ssid) ==
    TARGET \o "/etc/NetworkManager/system-connections/" \o ssid \o ".nmconnection"

\* the permission bits of path after the file operations of l: none when the
\* file was not created, 0600 once chmod was applied, else those of its creation
ModeAfter(l, path) ==
    LET ops == SelectSeq(l, LAMBDA e : e.kind = "fs" /\ e.executed /\ e.argv = <<path>>) IN
    IF ops = <<>> THEN NONE
    ELSE IF \E k \in 1..Len(ops) : ops[k].msg = "chmod 0600" THEN "0600"
    ELSE CreatedMode

\* C23: the Wi-Fi connection profile is written only when the SSID is non-empty
\* after trimming, and from its creation on the file is never present with
\* permission bits wider than owner read/write.
C23_WifiProfileOwnerOnly ==
    LET path == ProfilePath(Strip(cfg.wifi_ssid)) IN
    /\ (\E i \in 1..Len(log) : log[i].kind = "fs" /\ log[i].argv = <<path>>)
          => Strip(cfg.wifi_ssid) # ""
    /\ \A i \in 1..Len(log) : ModeAfter(SubSeq(log, 1, i), path) \in {NONE, "0600"}

\* the destructive commands of the erase flow, with the partitions the naming
\* rule predicts
EraseCommands(disk) ==
    << <<"wipefs", "-a", disk>>,
       <<"parted", "-s", disk, "mklabel", "gpt">>,
       <<"parted", "-s", disk, "mkpart", "EFI", "fat32", "1MiB", "513MiB">>,
       <<"parted", "-s", disk, "set", "1", "esp", "on">>,
       <<"parted", "-s", disk, "mkpart", "ROOT", "ext4", "513MiB", "100%">>,
       <<"mkfs.vfat", "-F", "32", NameByRule(disk, 1)>>,
       <<"mkfs.ext4", "-F", NameByRule(disk, 2)>> >>

\* the tools that destroy what a disk or a partition holds
Destructive == {"wipefs", "parted", "mkfs.vfat", "mkfs.ext4", "mkswap"}

\* C27: in erase mode the commands are issued in exactly the order wipefs -a,
\* parted mklabel gpt, parted mkpart EFI, parted set 1 esp on, parted mkpart
\* ROOT, mkfs.vfat on partition 1, mkfs.ext4 on partition 2; they are the first
\* commands of the run, so all precede the first mount and no kernel query
\* precedes them, the partitions are named by the naming rule, and nothing
\* destructive follows them.
C27_EraseOrdering ==
    (cfg.erase_disk /\ Commands(log) # <<>>) =>
        LET cl == CommandLines(log)
            expected == EraseCommands(cfg.target_disk)
        IN  /\ IsPrefix(cl, expected) \/ IsPrefix(expected, cl)
            /\ \A i \in 1..Len(cl) : i > Len(expected) => cl[i][1] \notin Destructive

\* a real erase run of an NVMe disk that formatted both partitions and mounted
\* the new root
C27_Witness ==
    /\ cfg.erase_disk /\ ~dry_run /\ error = ""
    /\ Len(Commands(log)) > 8
    /\ Contains(Spell(cfg.target_disk), <<"n", "v", "m", "e">>)
    /\ Commands(log)[7].argv = <<"mkfs.ext4", "-F", cfg.target_disk \o "p2">>
    /\ Commands(log)[7].executed
    /\ Commands(log)[9].argv[1] = "mount"

\* the mount and swap activation commands of the log, in order
MountCommands(l) ==
    SelectSeq(CommandLines(l),
              LAMBDA a : a[1] = "swapon" \/ (a[1] = "mount" /\ a[2] # "--bind"))

\* the mounts the run's partitions call for
ExpectedMounts(l) ==
       <<<<"mount", l.root_part, TARGET>>>>
    \o When(l.home_part # NONE, <<<<"mount", l.home_part, TARGET \o "/home">>>>)
    \o When(l.efi_part # NONE, <<<<"mount", l.efi_part, TARGET \o "/boot/efi">>>>)
    \o When(l.swap_part # NONE, <<<<"swapon", l.swap_part>>>>)

\* an entry of the log that works on the target tree
OnTargetTree(e) ==
    \/ e.kind = "fs"
    \/ /\ e.kind = "cmd"
       /\ \/ e.argv[1] \in {"rsync", "chroot"}
          \/ e.argv[1] = "mount" /\ e.argv[2] = "--bind"
          \/ e.argv[1] \in {"mount", "mkdir"}
             /\ e.argv[3] \in {TARGET \o "/home", TARGET \o "/boot/efi"}

\* the root mount command returned success at position i of the log
RootMounted(i) ==
    /\ log[i].kind = "cmd"
    /\ log[i].argv = <<"mount", loc.root_part, TARGET>>
    /\ log[i].rc = 0
    /\ log[i].executed = ~dry_run

\* C28: the target root is mounted first, then home under <target>/home if
\* present, then EFI under <target>/boot/efi if present, then swap is
\* activated without its failure being fatal; every operation on the target
\* tree (copy, fstab write, bind mounts, file writes, chroot commands) comes
\* after a root mount command that returned success.
C28_MountBeforeOperate ==
    /\ MountCommands(log) # <<>> => IsPrefix(MountCommands(log), ExpectedMounts(loc))
    /\ \A i \in 1..Len(log) :
          (log[i].kind = "cmd" /\ log[i].argv[1] = "swapon") => ~log[i].check
    /\ \A i \in 1..Len(log) :
          OnTargetTree(log[i]) => \E j \in 1..(i - 1) : RootMounted(j)
    /\ pc \in {"copy", "fstab", "chroot", "system", "locale", "network", "user",
               "software", "bootloader", "finalize", "done"}
          => MountCommands(log) = ExpectedMounts(loc)

\* a real run with home, EFI and swap partitions whose swapon failed and which
\* went on to write into the mounted target
C28_Witness ==
    /\ ~dry_run /\ pc = "locale" /\ error = ""
    /\ loc.home_part # NONE /\ loc.efi_part # NONE /\ loc.swap_part # NONE
    /\ \E i \in 1..Len(log) :
          log[i].kind = "cmd" /\ log[i].argv[1] = "swapon" /\ log[i].rc # 0
    /\ \E i \in 1..Len(log) : log[i].kind = "fs" /\ log[i].executed

\* the commands of the log whose first word is tool
CommandsOf(tool) == SelectSeq(CommandLines(log), LAMBDA a : a[1] = tool)

\* C29: on every run that reaches the Finalizing step, swapoff is issued iff a
\* swap partition was used, and before the unmount; umount -R <target> is
\* issued exactly once, as the last command of the run, after every mount and
\* chroot command; the run reports Done whether or not the unmount succeeded.
C29_UnmountOnCompletion ==
    (\E i \in 1..Len(log) : log[i] = Ev(95, "Finalizing")) =>
        LET cl == CommandLines(log)
            n == Len(cl)
        IN  /\ pc = "done" /\ error = ""
            /\ log[Len(log)] = Ev(100, "Done")
            /\ n > 0 /\ cl[n] = <<"umount", "-R", TARGET>>
            /\ Len(CommandsOf("umount")) = 1
            /\ CommandsOf("swapoff") = IF loc.swap_part # NONE
                                       THEN <<<<"swapoff", loc.swap_part>>>>
                                       ELSE <<>>
            /\ loc.swap_part # NONE => cl[n - 1][1] = "swapoff"

\* a real run with a swap partition whose final unmount failed and which
\* reported Done all the same
C29_Witness ==
    /\ ~dry_run /\ pc = "done" /\ loc.swap_part # NONE
    /\ log[Len(log)] = Ev(100, "Done")
    /\ log[Len(log) - 1].kind = "cmd" /\ log[Len(log) - 1].argv[1] = "umount"
    /\ log[Len(log) - 1].executed /\ log[Len(log) - 1].rc # 0
    /\ log[Len(log) - 2].argv = <<"swapoff", loc.swap_part>>

\* the bootloader installations of the log
GrubInstalls ==
    SelectSeq(Commands(log), LAMBDA e : e.argv[1] = "chroot" /\ e.argv[3] = "grub-install")

\* the boot configuration command
BootConfig ==
    Chroot(<<"bash", "-lc",
        "command -v update-grub >/dev/null 2>&1 && update-grub || grub-mkconfig -o /boot/grub/grub.cfg">>)

\* C30: the bootloader step runs grub-install --target=x86_64-efi
\* --efi-directory=/boot/efi iff /sys/firmware/efi exists on the running
\* environment, otherwise grub-install --target=i386-pc <disk>; exactly one of
\* the two is run; it is followed by the boot configuration command; a failure
\* of either is fatal.
C30_BootloaderVariant ==
    (\E i \in 1..Len(log) : log[i] = Ev(90, "Installing bootloader")) =>
        LET cmds == Commands(log)
            k == CHOOSE i \in 1..Len(cmds) : cmds[i] = GrubInstalls[1]
        IN  /\ Len(GrubInstalls) = 1
            /\ GrubInstalls[1].argv =
                  IF firmwareEfi
                  THEN Chroot(<<"grub-install", "--target=x86_64-efi",
                                "--efi-directory=/boot/efi", "--bootloader-id=VistulaOS">>)
                  ELSE Chroot(<<"grub-install", "--target=i386-pc", cfg.target_disk>>)
            /\ GrubInstalls[1].check
            /\ IF GrubInstalls[1].rc # 0
               THEN pc = "raised" /\ k = Len(cmds)
               ELSE /\ Len(cmds) > k
                    /\ cmds[k + 1].argv = BootConfig
                    /\ cmds[k + 1].check
                    /\ cmds[k + 1].rc # 0 => (pc = "raised" /\ k + 1 = Len(cmds))

\* a real run on UEFI firmware that installed the UEFI variant and generated
\* the boot configuration, and one on BIOS firmware whose grub-install failed
C30_Witness ==
    /\ ~dry_run /\ firmwareEfi /\ pc = "finalize"
    /\ Len(GrubInstalls) = 1 /\ GrubInstalls[1].executed
    /\ GrubInstalls[1].argv[4] = "--target=x86_64-efi"

\* C22: the payload save writes has install.password and install.wifi_password
\* empty and every other field as in memory, while the configuration in memory
\* keeps its password and Wi-Fi passphrase; load never takes either secret from
\* the file.
C22_SecretsNeverPersisted ==
    /\ [](pc = "loaded" => /\ cfg.password = DefaultInstall.password
                           /\ cfg.wifi_password = DefaultInstall.wifi_password)
    /\ [][pc' \in {"saved", "user", "network"} =>
              /\ config_file'[1].valid
              /\ config_file'[1].install = [cfg' EXCEPT !.password = "", !.wifi_password = ""]
              /\ pc' = "saved" => cfg' = cfg
              /\ pc' = "user" => (cfg'.password # "" /\ cfg'.wifi_password = cfg.wifi_password)
              /\ pc' = "network" => cfg'.password = cfg.password]_vars

\* the operator's password and passphrase are in memory and the file that was
\* just saved holds neither
C22_Witness ==
    /\ pc = "saved"
    /\ cfg.password = "hunter2" /\ cfg.wifi_password = "passphrase"
    /\ config_file[1].install.password = "" /\ config_file[1].install.wifi_password = ""
    /\ config_file[1].install.wifi_ssid = "home"

\* the runs of the worker threads that have not ended
Running == { i \in 1..Len(wizard.runs) : wizard.runs[i].pos \notin {"returned", "raised"} }

\* C24: the wizard never starts a second run_install while one is running, and
\* never starts run_install more than once during the lifetime of the
\* application.
C24_SingleInstall ==
    pc = "wizard" =>
        /\ Cardinality(Running) <= 1
        /\ Len(wizard.runs) <= 1

\* C25: every value run_install has used is the value the configuration held
\* when run_install started.
C25_ConfigFrozen ==
    pc = "wizard" =>
        \A i \in 1..Len(wizard.runs) :
            \A f \in {"target_disk", "hostname", "password"} :
                wizard.runs[i].used[f] # NONE =>
                    wizard.runs[i].used[f] = wizard.runs[i].at_start[f]

\* the main loop has run every callback the worker of run i queued
Handled(i) == \A k \in 1..Len(wizard.idle) : wizard.idle[k].run # i

\* C26: when the only run_install of the session raised and the worker's
\* callbacks ran, the error text is the recorded terminal error, it was shown
\* to the operator unmodified, and the wizard is on the final page; when it
\* returned, no terminal error is recorded.
C26_FailureBoundary ==
    (pc = "wizard" /\ Len(wizard.runs) = 1 /\ Handled(1)) =>
        /\ wizard.runs[1].pos \in {"except", "raised"} =>
              /\ wizard.last_error = wizard.runs[1].error
              /\ wizard.runs[1].error \in wizard.dialogs
              /\ PageAt(wizard.current_idx) = "finish"
        /\ wizard.runs[1].pos = "returned" => wizard.last_error = NONE

\* the chroot commands of the log that run tool inside the target
ChrootCalls(tool) ==
    SelectSeq(Commands(log), LAMBDA e : e.argv[1] = "chroot" /\ e.argv[3] = tool)

\* C31: in the user step a failed useradd is tolerated and the run goes on to
\* chpasswd, while a failed chpasswd aborts the run; chpasswd is issued exactly
\* once, after useradd, with the line <user>:<password> as its input.
C31_UserCreation ==
    (\E i \in 1..Len(log) : log[i] = Ev(85, "Creating user")) =>
        LET cmds == Commands(log)
            k == CHOOSE i \in 1..Len(cmds) : cmds[i] = ChrootCalls("useradd")[1]
        IN  /\ Len(ChrootCalls("useradd")) = 1
            /\ cmds[k].argv = Chroot(<<"useradd", "-m", "-s", "/bin/bash", cfg.username>>)
            /\ ~cmds[k].check
            /\ Len(ChrootCalls("chpasswd")) = 1
            /\ cmds[k + 1] = ChrootCalls("chpasswd")[1]
            /\ cmds[k + 1].check
            /\ cmds[k + 1].input = cfg.username \o ":" \o cfg.password \o "\n"
            /\ cmds[k + 1].rc # 0 => (pc = "raised" /\ Len(cmds) = k + 1)
            /\ cmds[k + 1].rc = 0 =>
                  (pc = "software" \/ \E i \in 1..Len(log) : log[i].kind = "step" /\ log[i].pct = 88)

\* a real run whose useradd failed and whose chpasswd ran and succeeded
C31_Witness ==
    /\ ~dry_run /\ pc = "software" /\ error = ""
    /\ Len(ChrootCalls("useradd")) = 1 /\ ChrootCalls("useradd")[1].rc # 0
    /\ Len(ChrootCalls("chpasswd")) = 1 /\ ChrootCalls("chpasswd")[1].executed
    /\ ChrootCalls("chpasswd")[1].input = "user:secret\n"

\* the reference of a device whose metadata is meta: its PARTUUID when one is
\* reported, else its UUID when one is reported, else its path
Reference(meta, dev) ==
    IF meta.partuuid # "" THEN "PARTUUID=" \o meta.partuuid
    ELSE IF meta.uuid # "" THEN "UUID=" \o meta.uuid
    ELSE dev

\* the partitions of the configuration with their mount points, fallback
\* filesystem types and options
Entries ==
       <<[dev |-> cfg.root_partition, where |-> "/", fallback |-> "ext4", rest |-> "defaults 0 1"]>>
    \o When(cfg.efi_partition # "",
            <<[dev |-> cfg.efi_partition, where |-> "/boot/efi", fallback |-> "vfat",
               rest |-> "umask=0077 0 1"]>>)
    \o When(cfg.home_partition # "",
            <<[dev |-> cfg.home_partition, where |-> "/home", fallback |-> "ext4",
               rest |-> "defaults 0 2"]>>)
    \o When(cfg.swap_partition # "",
            <<[dev |-> cfg.swap_partition, where |-> "none", fallback |-> "swap",
               rest |-> "sw 0 0"]>>)

\* the blkid queries of the log on dev
Queries(dev) ==
    SelectSeq(log, LAMBDA e : e.kind = "cmd" /\ e.argv = <<"blkid", "-o", "export", dev>>)

\* C32: in the mount table every device is referred to by PARTUUID=<x> when a
\* PARTUUID is reported, even next to a UUID, else by UUID=<x> when a UUID is
\* reported, else by its path; a metadata query that exits non-zero counts as
\* no identifiers and gives the path and the fallback filesystem type, never
\* an error.
C32_IdentifierResolution ==
    (pc = "fstab" /\ preview # <<>>) =>
        /\ error = ""
        /\ \A i \in 1..Len(preview) :
              preview[i] =
                  Join([k \in 1..Len(Entries) |->
                          LET e == Entries[k]
                              failed == \E q \in 1..Len(Queries(e.dev)) :
                                            Queries(e.dev)[q].rc # 0
                          IN  FstabLine(IF failed THEN e.dev ELSE Reference(blk[e.dev], e.dev),
                                        e.where,
                                        IF e.where = "none" THEN "swap"
                                        ELSE IF failed \/ blk[e.dev].type = "" THEN e.fallback
                                        ELSE blk[e.dev].type,
                                        e.rest)])
        /\ \A k \in 1..Len(Entries) :
              /\ Queries(Entries[k].dev) # <<>>
              /\ \A q \in 1..Len(Queries(Entries[k].dev)) : ~Queries(Entries[k].dev)[q].check

\* a table for a root partition that reports both identifiers, an EFI partition
\* with a UUID only and a home partition whose query failed
C32_Witness ==
    /\ pc = "fstab" /\ preview # <<>> /\ error = ""
    /\ blk[cfg.root_partition] = OldMeta
    /\ cfg.efi_partition # "" /\ blk[cfg.efi_partition].partuuid = ""
    /\ blk[cfg.efi_partition].uuid = "U-1"
    /\ cfg.home_partition # "" /\ Queries(cfg.home_partition)[1].rc # 0
    /\ preview[1] = "PARTUUID=PU-old / ext4 defaults 0 1\n"
                    \o "UUID=U-1 /boot/efi xfs umask=0077 0 1\n"
                    \o "/dev/sda3 /home ext4 defaults 0 2\n"

\* C33: while an installation worker is running and the wizard is on the
\* Progress page, the Back and the Next buttons are both insensitive.
C33_NoNavigationWhileInstalling ==
    (pc = "wizard" /\ PageAt(wizard.current_idx) = "progress" /\ Running # {}) =>
        (~wizard.back /\ ~wizard.next)

\* C34: every start of an installation is the outcome of a Next click on the
\* Summary page whose validate found the confirmation ticked; no other
\* callback shows the Progress page and starts one.
C34_FreshConfirmation ==
    [][ (pc = "wizard" /\ Len(wizard'.runs) > Len(wizard.runs)) =>
            /\ wizard.idle # <<>>
            /\ Head(wizard.idle).cb = "do_next"
            /\ PageAt(Head(wizard.idle).page) = "summary" ]_vars

\* C35: in dry-run mode run_install changes nothing in the filesystem: it
\* creates no directory and writes no file, and every file operation of the
\* log is a log line only.
C35_DryRunTouchesNothing ==
    dry_run =>
        /\ made = {}
        /\ \A i \in 1..Len(log) : log[i].kind = "fs" => ~log[i].executed

\* the texts of the Finish page for a run that returned
Complete == {"Installation complete. You can reboot now.",
             "Dry-run complete. No changes were made."}

\* C36: when the only run_install of the session has ended and the wizard
\* shows the Finish page, the page holds the failure text iff run_install
\* raised, and one of the two completion texts only if it returned.
C36_FinishReflectsOutcome ==
    (pc = "wizard" /\ Len(wizard.runs) = 1 /\ Handled(1) /\ Running = {}
       /\ PageAt(wizard.current_idx) = "finish") =>
        /\ wizard.label = "Installation failed:\n" \o wizard.runs[1].error
              <=> wizard.runs[1].pos = "raised"
        /\ wizard.label \in Complete => wizard.runs[1].pos = "returned"

\* C37: the busy counter is never negative, and whenever the window is busy
\* with a navigation, a Wi-Fi scan or a Flatpak search (no installation started
\* yet) the counter eventually returns to 0, also when the scan command fails
\* or cannot be started
C37_BusyCleared ==
    /\ [](pc = "wizard" => wizard.busy_count >= 0)
    /\ (pc = "wizard" /\ wizard.busy_count > 0 /\ wizard.runs = <<>>)
          ~> (wizard.busy_count = 0)

\* the UEFI bootloader installation
UefiGrub ==
    Chroot(<<"grub-install", "--target=x86_64-efi", "--efi-directory=/boot/efi",
             "--bootloader-id=VistulaOS">>)

\* the EFI partition of the run: partition 1 of the disk in erase mode, the
\* configured one in manual mode
EfiOf(install) ==
    IF install.erase_disk THEN NameByRule(install.target_disk, 1) ELSE install.efi_partition

\* C38: when run_install issues the UEFI grub-install, the firmware is UEFI (as
\* validation saw it), the run has an EFI partition (partition 1 of the disk in
\* erase mode, the validated efi_partition in manual mode), and a mount of that
\* partition on <target>/boot/efi returned success earlier in the run.
C38_EfiMountedForUefiGrub ==
    \A i \in 1..Len(log) :
        (log[i].kind = "cmd" /\ log[i].argv = UefiGrub) =>
            /\ firmwareEfi /\ loc.is_efi
            /\ Truthy(EfiOf(cfg)) /\ loc.efi_part = EfiOf(cfg)
            /\ \E j \in 1..(i - 1) :
                  /\ log[j].kind = "cmd"
                  /\ log[j].argv = <<"mount", EfiOf(cfg), TARGET \o "/boot/efi">>
                  /\ log[j].check /\ log[j].rc = 0
                  /\ log[j].executed = ~dry_run

\* a real manual run on UEFI firmware installed the UEFI bootloader with the
\* configured EFI partition mounted
C38_Witness ==
    /\ ~dry_run /\ ~cfg.erase_disk /\ firmwareEfi /\ pc = "finalize"
    /\ cfg.efi_partition = "/dev/sda1"
    /\ \E i \in 1..Len(log) :
          log[i].kind = "cmd" /\ log[i].argv = UefiGrub /\ log[i].executed /\ log[i].rc = 0

\* the mount tables of a root and an EFI partition alone, whether or not the
\* metadata queries succeeded
TwoLineTables(root, efi) ==
    { FstabLine(rref, "/", rtype, "defaults 0 1")
        \o FstabLine(eref, "/boot/efi", etype, "umask=0077 0 1") :
        rref \in {root, Reference(blk[root], root)},
        rtype \in {"ext4", blk[root].type} \ {""},
        eref \in {efi, Reference(blk[efi], efi)},
        etype \in {"vfat", blk[efi].type} \ {""} }

\* the steps after the mount step
AfterMount ==
    {"copy", "fstab", "chroot", "system", "locale", "network", "user", "software",
     "bootloader", "finalize", "done"}

\* C39: one partitioning mode per run.  In erase mode the manual fields have
\* no effect: no home mount, no swap activation or deactivation, no mount-table
\* line for home or swap, only partitions 1 and 2 of the disk are formatted,
\* queried and mounted.  In manual mode the disk is never wiped or
\* repartitioned.
C39_OnePartitioningMode ==
    /\ (cfg.erase_disk /\ Commands(log) # <<>>) =>
          LET p1 == NameByRule(cfg.target_disk, 1)
              p2 == NameByRule(cfg.target_disk, 2)
          IN  /\ loc.home_part = NONE /\ loc.swap_part = NONE
              /\ \A i \in 1..Len(log) :
                    log[i].kind = "cmd" =>
                        /\ log[i].argv[1] \notin {"swapon", "swapoff", "mkswap"}
                        /\ log[i].argv[1] \in {"mkfs.ext4", "mkfs.vfat"} =>
                               log[i].argv \in { <<"mkfs.vfat", "-F", "32", p1>>,
                                                 <<"mkfs.ext4", "-F", p2>> }
                        /\ (log[i].argv[1] = "mount" /\ log[i].argv[2] # "--bind") =>
                               log[i].argv \in { <<"mount", p2, TARGET>>,
                                                 <<"mount", p1, TARGET \o "/boot/efi">> }
                        /\ log[i].argv[1] = "mkdir" => log[i].argv[3] # TARGET \o "/home"
                        /\ log[i].argv[1] = "blkid" => log[i].argv[4] \in {p1, p2}
              /\ \A i \in 1..Len(log) :
                    (log[i].kind = "fs" /\ log[i].argv = <<FstabPath>>) =>
                        log[i].input \in TwoLineTables(p2, p1)
              /\ pc \in AfterMount =>
                    /\ Issued(<<"mkfs.vfat", "-F", "32", p1>>) = 1
                    /\ Issued(<<"mkfs.ext4", "-F", p2>>) = 1
                    /\ Issued(<<"mount", p2, TARGET>>) = 1
                    /\ Issued(<<"mount", p1, TARGET \o "/boot/efi">>) = 1
    /\ ~cfg.erase_disk =>
          \A i \in 1..Len(log) :
              log[i].kind = "cmd" => log[i].argv[1] \notin {"wipefs", "parted"}

\* a real erase run whose configuration names home and swap partitions and
\* sets every format flag finished, with a table of two lines written
C39_Witness ==
    /\ cfg.erase_disk /\ ~dry_run /\ pc = "done"
    /\ cfg.home_partition = "/dev/sda3" /\ cfg.swap_partition = "/dev/sda4"
    /\ cfg.format_home /\ cfg.format_swap
    /\ \E i \in 1..Len(log) :
          log[i].kind = "fs" /\ log[i].argv = <<FstabPath>> /\ log[i].executed

====
